---------------------------- MODULE Spec2Model ----------------------------
(***************************************************************************)
(* A model of the Hecto terminal text editor (src/src/main.rs): the Row    *)
(* buffer operations, the line highlighter, the Selection, the search and  *)
(* replace callbacks, and the lock discipline around the shared document.  *)
(*                                                                         *)
(* Text is a sequence of characters.  A character is written as a string:  *)
(* an ASCII character stands for itself, "U+4E16" is the CJK ideograph     *)
(* (3 bytes in UTF-8, 2 columns wide), "U+00E9" is e-acute (2 bytes, 1     *)
(* column) and "U+0301" is the combining acute accent (2 bytes, 0 columns, *)
(* Grapheme_Extend: it joins the grapheme cluster of the character before  *)
(* it).                                                                    *)
(***************************************************************************)
EXTENDS Integers, Sequences, FiniteSets, TLC

\* ------------------------------------------------------------------ bounds
\* Longest row text (in characters) the Row specification builds.
MaxLen == 2
\* Largest row and column index of a selection endpoint or probed position
MaxCoord == 2
\* Most editing keys (characters typed, Backspace, Delete) in one behaviour
MaxEdits == 1
\* Most save signals waiting in the channel
MaxSignals == 2

\* const QUIT_TIMES: the warnings before Ctrl-Q quits with unsaved changes
QUIT_TIMES == 3

\* --------------------------------------------------------------- characters
ExtendChars == {"U+0301"}
WideChars == {"U+4E16"}
TwoByteChars == {"U+00E9", "U+0301"}
ThreeByteChars == {"U+4E16"}
DigitChars == {"0", "1", "2", "3", "4", "5", "6", "7", "8", "9"}
AsciiLetters ==
    {"a", "b", "c", "d", "e", "f", "g", "h", "i", "j", "k", "l", "m",
     "n", "o", "p", "q", "r", "s", "t", "u", "v", "w", "x", "y", "z",
     "A", "B", "C", "D", "E", "F", "G", "H", "I", "J", "K", "L", "M",
     "N", "O", "P", "Q", "R", "S", "T", "U", "V", "W", "X", "Y", "Z"}

\* char::is_alphabetic, char::is_digit(10), char::is_alphanumeric
is_alphabetic(c) == c \in AsciiLetters \cup {"U+00E9", "U+4E16"}
is_digit(c) == c \in DigitChars
is_alphanumeric(c) == is_alphabetic(c) \/ is_digit(c)

\* UnicodeWidthStr::width of one character
CharWidth(c) == IF c \in WideChars THEN 2 ELSE IF c \in ExtendChars THEN 0 ELSE 1

\* Length of the UTF-8 encoding of one character (String::len counts bytes)
Utf8Len(c) == IF c \in ThreeByteChars THEN 3 ELSE IF c \in TwoByteChars THEN 2 ELSE 1

RECURSIVE width(_)
\* UnicodeWidthStr::width of a string: the sum of its characters' widths
width(s) == IF s = <<>> THEN 0 ELSE CharWidth(Head(s)) + width(Tail(s))

RECURSIVE byte_len(_)
\* String::len, the number of bytes of the UTF-8 encoding
byte_len(s) == IF s = <<>> THEN 0 ELSE Utf8Len(Head(s)) + byte_len(Tail(s))

\* Number of characters of the first extended grapheme cluster of a
\* non-empty string: its first character and the Extend characters after it.
FirstClusterLen(s) ==
    LET stops == {k \in 2..Len(s) : s[k] \notin ExtendChars}
    IN  IF stops = {} THEN Len(s)
        ELSE (CHOOSE k \in stops : \A j \in stops : k <= j) - 1

RECURSIVE graphemes(_)
\* UnicodeSegmentation::graphemes(true): the sequence of grapheme clusters
graphemes(s) ==
    IF s = <<>> THEN <<>>
    ELSE LET k == FirstClusterLen(s)
         IN  <<SubSeq(s, 1, k)>> \o graphemes(SubSeq(s, k + 1, Len(s)))

RECURSIVE concat(_)
\* Concatenation of a sequence of strings (push_str in a loop, collect())
concat(gs) == IF gs = <<>> THEN <<>> ELSE Head(gs) \o concat(Tail(gs))

\* Graphemes with 0-based index in lo..hi-1, as one string
GraphemeRange(gs, lo, hi) ==
    concat(SubSeq(gs, lo + 1, IF hi > Len(gs) THEN Len(gs) ELSE hi))

\* ------------------------------------------------------------- highlighter
PrimaryKeywordList ==
    {<<"i","f">>, <<"e","l","s","e">>, <<"f","n">>, <<"f","o","r">>,
     <<"w","h","i","l","e">>, <<"m","a","t","c","h">>,
     <<"c","o","n","s","t">>, <<"s","t","a","t","i","c">>,
     <<"s","t","r","u","c","t">>, <<"e","n","u","m">>,
     <<"i","m","p","l">>, <<"t","r","a","i","t">>, <<"t","y","p","e">>,
     <<"m","o","d">>, <<"p","u","b">>, <<"u","s","e">>,
     <<"e","x","t","e","r","n">>, <<"c","r","a","t","e">>}

SecondaryKeywordList ==
    {<<"l","e","t">>, <<"m","u","t">>, <<"r","e","f">>,
     <<"r","e","t","u","r","n">>, <<"s","e","l","f">>, <<"S","e","l","f">>,
     <<"w","h","e","r","e">>, <<"a","s","y","n","c">>,
     <<"a","w","a","i","t">>, <<"m","o","v","e">>, <<"d","y","n">>,
     <<"b","o","x">>, <<"i","n">>, <<"a","s">>,
     <<"b","r","e","a","k">>, <<"c","o","n","t","i","n","u","e">>,
     <<"l","o","o","p">>}

is_primary_keyword(word) == word \in PrimaryKeywordList
is_secondary_keyword(word) == word \in SecondaryKeywordList

IsWordChar(c) == is_alphanumeric(c) \/ c = "_"

\* A variant of Row::get_word_at that does not look at the character in
\* front of start
get_word_at_any_left(start, chars) ==
    IF ~is_alphabetic(chars[start + 1])
    THEN <<>>
    ELSE LET stops == {k \in (start + 1)..Len(chars) : ~IsWordChar(chars[k])}
             end == IF stops = {} THEN Len(chars)
                    ELSE (CHOOSE k \in stops : \A j \in stops : k <= j) - 1
         IN  SubSeq(chars, start + 1, end)

\* Row::get_word_at: the word starting at 0-based index start, or <<>> for
\* None (a word is never empty, so <<>> is free to stand for None).
get_word_at(start, chars) ==
    IF start > 0 /\ IsWordChar(chars[start])
    THEN <<>>
    ELSE IF ~is_alphabetic(chars[start + 1])
    THEN <<>>
    ELSE LET stops == {k \in (start + 1)..Len(chars) : ~IsWordChar(chars[k])}
             end == IF stops = {} THEN Len(chars)
                    ELSE (CHOOSE k \in stops : \A j \in stops : k <= j) - 1
         IN  SubSeq(chars, start + 1, end)

Repeat(tag, n) == [k \in 1..n |-> tag]

RECURSIVE syntax_scan(_, _, _, _)
\* The while loop of Row::update_syntax from 0-based index i on: the tags it
\* pushes.  chars[i + 1] is the source's chars[i].
syntax_scan(chars, i, in_string, in_comment) ==
    LET n == Len(chars)
        c == chars[i + 1]
        next == chars[i + 2]
    IN  IF i >= n THEN <<>>
        ELSE IF in_comment THEN
            IF i < n - 1 /\ c = "*" /\ next = "/"
            THEN <<"Comment", "Comment">> \o syntax_scan(chars, i + 2, in_string, FALSE)
            ELSE <<"Comment">> \o syntax_scan(chars, i + 1, in_string, TRUE)
        ELSE IF i < n - 1 /\ c = "/" /\ next = "*"
        THEN <<"Comment", "Comment">> \o syntax_scan(chars, i + 2, in_string, TRUE)
        ELSE IF c = "\""
        THEN <<"String">> \o syntax_scan(chars, i + 1, ~in_string, FALSE)
        ELSE IF in_string
        THEN <<"String">> \o syntax_scan(chars, i + 1, in_string, FALSE)
        ELSE IF c = "'"
        THEN LET closes == {k \in (i + 1)..(n - 1) : chars[k + 1] = "'"}
                 j == IF closes = {} THEN n
                      ELSE CHOOSE k \in closes : \A m \in closes : k <= m
             IN  Repeat("CharLiteral", j - i + 1)
                     \o syntax_scan(chars, j + 1, in_string, FALSE)
        ELSE IF is_digit(c)
        THEN <<"Number">> \o syntax_scan(chars, i + 1, in_string, FALSE)
        ELSE IF c = "/" /\ i < n - 1 /\ next = "/"
        THEN Repeat("Comment", n - i)
        ELSE LET word == get_word_at(i, chars)
             IN  IF word # <<>> /\ is_primary_keyword(word)
                 THEN Repeat("PrimaryKeywords", byte_len(word))
                          \o syntax_scan(chars, i + byte_len(word), in_string, FALSE)
                 ELSE IF word # <<>> /\ is_secondary_keyword(word)
                 THEN Repeat("SecondaryKeywords", byte_len(word))
                          \o syntax_scan(chars, i + byte_len(word), in_string, FALSE)
                 ELSE <<"Normal">> \o syntax_scan(chars, i + 1, in_string, FALSE)

\* Row::update_syntax: the highlighting of a row text, one pass over chars()
update_syntax(string) == syntax_scan(string, 0, FALSE, FALSE)

\* --------------------------------------------------------------------- Row
\* struct Row { string, highlighting, len, display_len }
Row(string, highlighting, len, display_len) ==
    [string |-> string, highlighting |-> highlighting,
     len |-> len, display_len |-> display_len]

\* Row::new
Row_new(string) ==
    Row(string, update_syntax(string), Len(graphemes(string)), width(string))

\* A variant of Row::insert that appends c and leaves display_len alone
insert_keeps_width(r, at, c) ==
    [r EXCEPT !.string = Append(@, c), !.len = @ + 1]

\* Row::insert.  The early return appends; the loop inserts c in front of the
\* grapheme with index at, and only where the loop meets that index.
insert(r, at, c) ==
    IF at >= r.len
    THEN [r EXCEPT !.string = Append(@, c),
                   !.len = @ + 1,
                   !.display_len = @ + CharWidth(c)]
    ELSE LET gs == graphemes(r.string)
             met == at < Len(gs)
         IN  [r EXCEPT
                !.string = IF met
                           THEN GraphemeRange(gs, 0, at) \o <<c>>
                                    \o GraphemeRange(gs, at, Len(gs))
                           ELSE r.string,
                !.len = Len(gs) + (IF met THEN 1 ELSE 0),
                !.display_len = width(r.string) + (IF met THEN CharWidth(c) ELSE 0)]

\* Row::delete
delete(r, at) ==
    IF at >= r.len
    THEN r
    ELSE LET gs == graphemes(r.string)
             kept == GraphemeRange(gs, 0, at) \o GraphemeRange(gs, at + 1, Len(gs))
         IN  [r EXCEPT !.string = kept,
                       !.len = Len(gs) - (IF at < Len(gs) THEN 1 ELSE 0),
                       !.display_len = width(kept)]

\* Row::append
append(r, new) ==
    LET joined == r.string \o new.string
    IN  Row(joined, update_syntax(joined), r.len + new.len,
            r.display_len + new.display_len)

\* Row::split, the row left in self
split_self(r, at) ==
    LET gs == graphemes(r.string)
        kept == GraphemeRange(gs, 0, at)
    IN  Row(kept, update_syntax(kept),
            IF at < Len(gs) THEN at ELSE Len(gs), width(kept))

\* Row::split, the row returned
split_returned(r, at) ==
    LET gs == graphemes(r.string)
    IN  Row_new(GraphemeRange(gs, at, Len(gs)))

\* str::find: the byte offset of the first occurrence of needle in hay, or
\* -1 for None
str_find(hay, needle) ==
    LET hits == {k \in 0..(Len(hay) - Len(needle)) :
                    SubSeq(hay, k + 1, k + Len(needle)) = needle}
    IN  IF hits = {} THEN -1
        ELSE byte_len(SubSeq(hay, 1, CHOOSE k \in hits : \A j \in hits : k <= j))

\* str::rfind: the byte offset of the last occurrence of needle in hay, or
\* -1 for None
str_rfind(hay, needle) ==
    LET hits == {k \in 0..(Len(hay) - Len(needle)) :
                    SubSeq(hay, k + 1, k + Len(needle)) = needle}
    IN  IF hits = {} THEN -1
        ELSE byte_len(SubSeq(hay, 1, CHOOSE k \in hits : \A j \in hits : k >= j))

\* Row::search: Some(index) as the index, None as -1.  The byte offset that
\* find returns is added to the grapheme index at, and that many graphemes
\* are taken and counted.
Row_search(r, query, at) ==
    IF at > r.len THEN -1
    ELSE LET gs == graphemes(r.string)
             substring == GraphemeRange(gs, at, Len(gs))
             match_index == str_find(substring, query)
         IN  IF match_index = -1 THEN -1
             ELSE Len(graphemes(GraphemeRange(gs, 0, at + match_index)))

\* --------------------------------------------------------------- Selection
Position(x, y) == [x |-> x, y |-> y]

\* Option<T>: None is the empty tuple, Some(v) the tuple of v
None == <<>>
Some(v) == <<v>>
IsSome(o) == o # <<>>
Unwrap(o) == o[1]

\* struct Selection { start, end }
Selection(start, end) == [start |-> start, end |-> end]

\* Selection::is_empty
is_empty(sel) == sel.start.x = sel.end.x /\ sel.start.y = sel.end.y

\* A variant of Selection::normalized that returns the endpoints as stored
normalized_as_stored(sel) == <<sel.start, sel.end>>

\* Selection::normalized, as the pair <<start, end>>
normalized(sel) ==
    IF sel.start.y < sel.end.y
           \/ (sel.start.y = sel.end.y /\ sel.start.x <= sel.end.x)
    THEN <<sel.start, sel.end>>
    ELSE <<sel.end, sel.start>>

\* A variant of Selection::contains that counts the end position in
contains_end_inclusive(sel, pos) ==
    LET start == normalized(sel)[1]
        end == normalized(sel)[2]
    IN  IF pos.y > start.y /\ pos.y < end.y THEN TRUE
        ELSE IF pos.y = start.y /\ pos.y = end.y
        THEN pos.x >= start.x /\ pos.x <= end.x
        ELSE IF pos.y = start.y THEN pos.x >= start.x
        ELSE IF pos.y = end.y THEN pos.x <= end.x
        ELSE FALSE

\* Selection::contains
contains(sel, pos) ==
    LET start == normalized(sel)[1]
        end == normalized(sel)[2]
    IN  IF pos.y > start.y /\ pos.y < end.y THEN TRUE
        ELSE IF pos.y = start.y /\ pos.y = end.y
        THEN pos.x >= start.x /\ pos.x < end.x
        ELSE IF pos.y = start.y THEN pos.x >= start.x
        ELSE IF pos.y = end.y THEN pos.x < end.x
        ELSE FALSE

\* ------------------------------------------------------------------ Editor
\* An editor state e is the record of the Editor fields (see Ed below).

\* StatusMessage::from, ::search, ::error.  The text is kept as a token for
\* the format string; n is the number the format string prints, or -1.
StatusFrom(text, n) ==
    [text |-> text, n |-> n, persistent |-> FALSE, message_type |-> "Normal"]
StatusSearch(text) ==
    [text |-> text, n |-> -1, persistent |-> TRUE, message_type |-> "Search"]
StatusError(text) ==
    [text |-> text, n |-> -1, persistent |-> TRUE, message_type |-> "Error"]

\* KeyCode: code is "Enter", "Esc", "Backspace", "Char", "Left", "Right",
\* "Up", "Down", "Tab", ...; c is the character of a "Char" key.
Key(code) == [code |-> code, c |-> ""]
CharKey(c) == [code |-> "Char", c |-> c]

\* SearchState::default()
SearchStateDefault == [last_match |-> None, direction |-> 0, replace_text |-> None]

\* Editor::scroll: the offset that keeps the cursor on screen
scroll(e) ==
    LET x == e.cursor_position.x
        y == e.cursor_position.y
        off_y == IF y < e.offset.y THEN y
                 ELSE IF y >= e.offset.y + e.screen.rows
                 THEN y - e.screen.rows + 1
                 ELSE e.offset.y
        gs == IF y < Len(e.rows) THEN graphemes(e.rows[y + 1].string) ELSE <<>>
        target_x == IF x < Len(gs) THEN width(GraphemeRange(gs, 0, x)) ELSE 0
        off_x == IF target_x < e.offset.x THEN target_x
                 ELSE IF target_x >= e.offset.x + e.screen.cols
                 THEN target_x - e.screen.cols + 1
                 ELSE e.offset.x
    IN  Position(off_x, off_y)

\* Editor::refresh_screen: what it changes of the editor, the offset.  (The
\* expiry of a timed-out status message is the action StatusExpire.)
refresh_screen(e) == [e EXCEPT !.offset = scroll(e)]

\* The match index of one row in find_callback and replace_callback: forward
\* Row::search from x, backward rfind in the graphemes before x - 1, plus 1.
match_in_row(r, query, direction, x) ==
    IF direction = 1
    THEN Row_search(r, query, x)
    ELSE LET start == IF x > 0 THEN x - 1 ELSE 0
             substring == GraphemeRange(graphemes(r.string), 0, start)
             i == str_rfind(substring, query)
         IN  IF i = -1 THEN -1 ELSE i + 1

\* One step from row to row in the scan
scan_advance(current, direction, total_rows) ==
    IF direction = 1
    THEN Position(0, (current.y + 1) % total_rows)
    ELSE Position(0, IF current.y = 0 THEN total_rows - 1 ELSE current.y - 1)

RECURSIVE find_scan(_, _, _, _, _, _, _)
\* The loop of find_callback that scans the document.  The result is
\* [kind, x, y] with kind "found", "notfound", "panic" (rows[current.y] out
\* of range) or "hang": after the first iteration the loop state is the row
\* index alone, so a loop that has not ended after total_rows + 1 more
\* iterations never ends.
find_scan(rws, query, direction, current, start, first_search, fuel) ==
    IF current.y >= Len(rws) THEN [kind |-> "panic", x |-> 0, y |-> 0]
    ELSE LET match_index == match_in_row(rws[current.y + 1], query, direction, current.x)
             moved == scan_advance(current, direction, Len(rws))
             lap == \/ direction = 1 /\ moved.y = start.y
                    \/ direction = -1 /\ moved.y = start.y /\ moved.x >= start.x
         IN  IF match_index # -1
             THEN [kind |-> "found", x |-> match_index, y |-> current.y]
             ELSE IF ~first_search /\ lap
             THEN [kind |-> "notfound", x |-> 0, y |-> 0]
             ELSE IF fuel = 0
             THEN [kind |-> "hang", x |-> 0, y |-> 0]
             ELSE find_scan(rws, query, direction, moved, start, FALSE, fuel - 1)

\* The viewport adjustment of a match in find_callback and replace_callback
offset_for_match(e, match_index, y) ==
    Position(
        IF match_index < e.offset.x THEN match_index
        ELSE IF match_index >= e.offset.x + e.screen.cols
        THEN match_index - e.screen.cols + 1
        ELSE e.offset.x,
        IF y < e.offset.y THEN y
        ELSE IF y >= e.offset.y + e.screen.rows
        THEN y - e.screen.rows + 1
        ELSE e.offset.y)

\* The result of a callback: the editor state and what it returns, "true" or
\* "false"; "prompt" when replace_callback stands in its inner prompt.
Ret(e, value) == [e |-> e, ret |-> value]

\* find_callback after its match on the key: the scan and its report
find_step(e, query) ==
    LET current == IF IsSome(e.search_state.last_match)
                   THEN Unwrap(e.search_state.last_match)
                   ELSE Position(0, 0)
        total_rows == Len(e.rows)
        res == find_scan(e.rows, query, e.search_state.direction, current,
                         current, TRUE, total_rows + 1)
    IN  IF total_rows = 0
        THEN Ret(refresh_screen([e EXCEPT !.status_message = StatusError("NotFound")]),
                 "true")
        ELSE IF res.kind \in {"panic", "hang"}
        THEN Ret([e EXCEPT !.fault = res.kind], "true")
        ELSE IF res.kind = "notfound"
        THEN Ret([refresh_screen([e EXCEPT !.status_message = StatusError("NotFound")])
                      EXCEPT !.search_state.last_match = Some(Position(0, 0))],
                 "true")
        ELSE Ret(refresh_screen(
                     [e EXCEPT !.search_state.last_match = Some(Position(res.x, res.y)),
                               !.cursor_position = Position(res.x, res.y),
                               !.offset = offset_for_match(e, res.x, res.y),
                               !.status_message = StatusSearch("Found")]),
                 "true")

\* Editor::find_callback
find_callback(e, query, key) ==
    IF key.code = "Esc"
    THEN Ret(refresh_screen(
                 [e EXCEPT !.search_state.last_match = None,
                           !.search_state.direction = 1,
                           !.is_searching = FALSE,
                           !.current_search = None,
                           !.status_message = StatusFrom("", -1)]),
             "false")
    ELSE LET e1 == [e EXCEPT !.current_search =
                                 IF query = <<>> THEN None ELSE Some(query)]
         IN  IF query = <<>>
             THEN Ret(refresh_screen(
                          [e1 EXCEPT !.status_message = StatusSearch("EnterQuery")]),
                      "true")
             ELSE IF key.code = "Enter" \/ key = CharKey("n")
             THEN LET shown == refresh_screen(
                                   [e1 EXCEPT !.status_message = StatusSearch("Searching")])
                  IN  find_step(
                          [shown EXCEPT
                              !.search_state.direction = 1,
                              !.search_state.last_match =
                                  IF key.code = "Enter" THEN Some(Position(0, 0)) ELSE @],
                          query)
             ELSE IF key.code \in {"Right", "Down"}
             THEN find_step([e1 EXCEPT !.search_state.direction = 1], query)
             ELSE IF key.code \in {"Left", "Up"}
             THEN find_step([e1 EXCEPT !.search_state.direction = -1], query)
             ELSE Ret([e1 EXCEPT !.search_state.last_match = Some(Position(0, 0)),
                                 !.search_state.direction = 1],
                      "true")

RECURSIVE replace_loop(_, _, _, _, _, _, _, _)
\* The loop of replace_current_match over the graphemes gs from 0-based
\* index on: [string, length], the text it pushes and the length it counts.
\* query_len and string_len are byte lengths (String::len).
replace_loop(gs, index, x, query_len, replace_text, string_len, current_pos, replaced) ==
    IF index >= Len(gs) THEN [string |-> <<>>, length |-> 0]
    ELSE IF index = x /\ ~replaced
    THEN LET rest == replace_loop(gs, index + 1, x, query_len, replace_text,
                                  string_len, current_pos + query_len, TRUE)
         IN  [string |-> replace_text \o rest.string,
              length |-> Len(replace_text) + rest.length]
    ELSE IF current_pos < string_len
    THEN LET rest == replace_loop(gs, index + 1, x, query_len, replace_text,
                                  string_len, current_pos + 1, replaced)
         IN  [string |-> gs[index + 1] \o rest.string, length |-> 1 + rest.length]
    ELSE replace_loop(gs, index + 1, x, query_len, replace_text, string_len,
                      current_pos, replaced)

\* Editor::replace_current_match
replace_current_match(e) ==
    IF ~(IsSome(e.current_search) /\ IsSome(e.search_state.replace_text)
             /\ IsSome(e.search_state.last_match))
    THEN e
    ELSE LET query == Unwrap(e.current_search)
             replace_text == Unwrap(e.search_state.replace_text)
             position == Unwrap(e.search_state.last_match)
         IN  IF position.y >= Len(e.rows) THEN e
             ELSE LET r == e.rows[position.y + 1]
                      out == replace_loop(graphemes(r.string), 0, position.x,
                                          byte_len(query), replace_text,
                                          byte_len(r.string), 0, FALSE)
                  IN  [e EXCEPT
                         !.rows[position.y + 1] =
                             Row(out.string, update_syntax(out.string),
                                 out.length, r.display_len),
                         !.dirty = TRUE,
                         !.cursor_position.x = position.x + byte_len(replace_text),
                         !.status_message = StatusFrom("Replaced", -1)]

RECURSIVE replace_scan(_, _, _, _, _)
\* The for loop of replace_callback that looks for the match: at most
\* total_rows iterations.  [kind, x, y] with kind "found", "notfound" or
\* "panic" (rows[current.y] out of range).
replace_scan(rws, query, direction, current, left) ==
    IF left = 0 THEN [kind |-> "notfound", x |-> 0, y |-> 0]
    ELSE IF current.y >= Len(rws) THEN [kind |-> "panic", x |-> 0, y |-> 0]
    ELSE LET match_index == match_in_row(rws[current.y + 1], query, direction, current.x)
         IN  IF match_index # -1
             THEN [kind |-> "found", x |-> match_index, y |-> current.y]
             ELSE replace_scan(rws, query, direction,
                               scan_advance(current, direction, Len(rws)), left - 1)

\* Editor::replace_callback, up to its inner prompt "Replace with: "
replace_callback(e, query, key) ==
    IF key.code = "Esc"
    THEN Ret(refresh_screen(
                 [e EXCEPT !.search_state.last_match = None,
                           !.search_state.direction = 1,
                           !.is_searching = FALSE,
                           !.current_search = None,
                           !.status_message = StatusFrom("", -1)]),
             "false")
    ELSE LET e1 == [e EXCEPT !.current_search =
                                 IF query = <<>> THEN None ELSE Some(query)]
         IN  IF key.code = "Enter"
             THEN IF query = <<>>
                  THEN Ret(refresh_screen(
                               [e1 EXCEPT !.status_message = StatusError("EnterQuery")]),
                           "true")
                  ELSE LET e2 == [e1 EXCEPT !.search_state.direction = 1]
                           current == IF IsSome(e2.search_state.last_match)
                                      THEN Unwrap(e2.search_state.last_match)
                                      ELSE Position(0, 0)
                           res == replace_scan(e2.rows, query, e2.search_state.direction,
                                               current, Len(e2.rows))
                       IN  IF res.kind = "panic"
                           THEN Ret([e2 EXCEPT !.fault = "panic"], "true")
                           ELSE IF res.kind = "notfound"
                           THEN Ret(refresh_screen(
                                        [e2 EXCEPT !.status_message = StatusError("NotFound")]),
                                    "true")
                           ELSE Ret([e2 EXCEPT
                                        !.search_state.last_match = Some(Position(res.x, res.y)),
                                        !.cursor_position = Position(res.x, res.y),
                                        !.offset = offset_for_match(e2, res.x, res.y)],
                                    "prompt")
             ELSE IF key = CharKey("n")
             THEN Ret([e1 EXCEPT !.search_state.last_match = None,
                                 !.search_state.direction = 1],
                      "true")
             ELSE IF key.code \in {"Right", "Down"}
             THEN Ret([e1 EXCEPT !.search_state.direction = 1], "true")
             ELSE IF key.code \in {"Left", "Up"}
             THEN Ret([e1 EXCEPT !.search_state.direction = -1], "true")
             ELSE IF query = <<>>
             THEN Ret(refresh_screen(
                          [e1 EXCEPT !.search_state.last_match = None,
                                     !.search_state.direction = 1,
                                     !.status_message = StatusFrom("", -1)]),
                      "false")
             ELSE Ret([e1 EXCEPT !.search_state.last_match = None,
                                 !.search_state.direction = 1],
                      "true")

\* replace_callback after its inner prompt returned Some(replace_text)
replace_with(e, replace_text) ==
    LET e1 == replace_current_match(
                  [e EXCEPT !.search_state.replace_text = Some(replace_text)])
    IN  [e1 EXCEPT !.search_state.last_match = None,
                   !.search_state.direction = 1]

\* Editor::clear_selection
clear_selection(e) ==
    IF IsSome(e.selection) THEN refresh_screen([e EXCEPT !.selection = None]) ELSE e

\* Editor::start_selection
start_selection(e) ==
    refresh_screen([e EXCEPT !.selection = Some(Selection(e.cursor_position,
                                                          e.cursor_position))])

\* Editor::update_selection
update_selection(e) ==
    IF IsSome(e.selection)
    THEN refresh_screen([e EXCEPT !.selection =
                             Some([Unwrap(@) EXCEPT !.end = e.cursor_position])])
    ELSE e

RECURSIVE column_walk(_, _, _, _, _)
\* The loop of move_cursor (Up, Down) over the graphemes gs of the new row
\* from 0-based index i on: the last index it visits before the width
\* passes target_width
column_walk(gs, i, current_width, new_x, target_width) ==
    IF i >= Len(gs) \/ current_width > target_width THEN new_x
    ELSE column_walk(gs, i + 1, current_width + width(gs[i + 1]), i, target_width)

\* Editor::move_cursor
move_cursor(e, key) ==
    LET x == e.cursor_position.x
        y == e.cursor_position.y
        height == Len(e.rows)
        target_width ==
            IF y < height
            THEN LET gs == graphemes(e.rows[y + 1].string)
                 IN  width(GraphemeRange(gs, 0, x))
            ELSE 0
        vertical(ny) ==
            IF ny < height
            THEN Position(column_walk(graphemes(e.rows[ny + 1].string), 0, 0, 0,
                                      target_width), ny)
            ELSE Position(x, ny)
        moved ==
            CASE key.code = "Up" -> IF y > 0 THEN vertical(y - 1) ELSE Position(x, y)
              [] key.code = "Down" -> IF y < height THEN vertical(y + 1) ELSE Position(x, y)
              [] key.code = "Left" ->
                    IF x > 0 THEN Position(x - 1, y)
                    ELSE IF y > 0
                    THEN Position(IF y - 1 < height THEN e.rows[y].len ELSE 0, y - 1)
                    ELSE Position(x, y)
              [] key.code = "Right" ->
                    IF y < height
                    THEN IF x < e.rows[y + 1].len THEN Position(x + 1, y)
                         ELSE Position(0, y + 1)
                    ELSE Position(x, y)
              [] key.code = "PageUp" ->
                    Position(x, IF y > e.screen.rows THEN y - e.screen.rows ELSE 0)
              [] key.code = "PageDown" ->
                    Position(x, IF y + e.screen.rows < height
                                THEN y + e.screen.rows ELSE height)
              [] key.code = "Home" -> Position(0, y)
              [] key.code = "End" ->
                    IF y < height THEN Position(e.rows[y + 1].len, y) ELSE Position(x, y)
              [] OTHER -> Position(x, y)
        limit == IF moved.y < height THEN e.rows[moved.y + 1].len ELSE 0
    IN  [e EXCEPT !.cursor_position =
                      Position(IF moved.x > limit THEN limit ELSE moved.x, moved.y)]

\* The thread that update_syntax_async spawns: under the write lock it
\* recomputes the highlighting of every row.
syntax_thread_body(e) ==
    [e EXCEPT !.rows = [i \in 1..Len(e.rows) |->
                           [e.rows[i] EXCEPT !.highlighting = update_syntax(e.rows[i].string)]],
              !.syntax_thread = "finished"]

\* Editor::update_syntax_async: join the thread spawned before, which runs
\* now if it has not yet, and spawn a new one.
update_syntax_async(e) ==
    LET joined == IF e.syntax_thread = "running" THEN syntax_thread_body(e) ELSE e
    IN  [joined EXCEPT !.syntax_thread = "running"]

\* Editor::insert_char
insert_char(e, c) ==
    LET x == e.cursor_position.x
        y == e.cursor_position.y
        rows1 == IF y = Len(e.rows) THEN Append(e.rows, Row_new(<<>>)) ELSE e.rows
    IN  IF y >= Len(rows1) THEN [e EXCEPT !.fault = "panic"]
        ELSE update_syntax_async(
                 [e EXCEPT !.rows = [rows1 EXCEPT ![y + 1] = insert(@, x, c)],
                           !.cursor_position.x = x + 1,
                           !.dirty = TRUE])

\* The sequence s without its element of 1-based index i
RemoveAt(s, i) == SubSeq(s, 1, i - 1) \o SubSeq(s, i + 1, Len(s))

\* Editor::delete_char
delete_char(e) ==
    LET x == e.cursor_position.x
        y == e.cursor_position.y
    IN  IF y = Len(e.rows) THEN e
        ELSE IF y > Len(e.rows) THEN [e EXCEPT !.fault = "panic"]
        ELSE IF x > 0
        THEN update_syntax_async(
                 [e EXCEPT !.rows[y + 1] = delete(@, x - 1),
                           !.cursor_position.x = x - 1,
                           !.dirty = TRUE])
        ELSE IF y > 0
        THEN LET previous_len == e.rows[y].len
                 merged == append(e.rows[y], e.rows[y + 1])
             IN  update_syntax_async(
                     [e EXCEPT !.rows = [RemoveAt(e.rows, y + 1) EXCEPT ![y] = merged],
                               !.cursor_position = Position(previous_len, y - 1),
                               !.dirty = TRUE])
        ELSE e

\* The graphemes gs paired with their 0-based index
Indexed(gs) == [i \in 1..Len(gs) |-> [index |-> i - 1, grapheme |-> gs[i]]]

\* The text and the number of a sequence of indexed graphemes
Pushed(ps) ==
    [string |-> concat([i \in 1..Len(ps) |-> ps[i].grapheme]), length |-> Len(ps)]

\* A variant of keep_outside that also drops the grapheme of index hi
keep_outside_inclusive(gs, lo, hi) ==
    Pushed(SelectSeq(Indexed(gs), LAMBDA p : p.index < lo \/ p.index > hi))

\* The loop of delete_selection on one row: the text of the graphemes gs
\* whose index is below lo or not below hi, and their number
keep_outside(gs, lo, hi) ==
    Pushed(SelectSeq(Indexed(gs), LAMBDA p : p.index < lo \/ p.index >= hi))

\* Editor::delete_selection
delete_selection(e) ==
    IF ~IsSome(e.selection) \/ is_empty(Unwrap(e.selection)) THEN e
    ELSE LET start == normalized(Unwrap(e.selection))[1]
             end == normalized(Unwrap(e.selection))[2]
             e1 == clear_selection(e)
             e2 == IF start.y = end.y
                   THEN IF start.y >= Len(e1.rows) THEN [e1 EXCEPT !.fault = "panic"]
                        ELSE LET r == e1.rows[start.y + 1]
                                 out == keep_outside(graphemes(r.string), start.x, end.x)
                             IN  [e1 EXCEPT !.rows[start.y + 1] =
                                     Row(out.string, update_syntax(out.string),
                                         out.length, r.display_len)]
                   ELSE IF end.y >= Len(e1.rows) THEN [e1 EXCEPT !.fault = "panic"]
                   ELSE LET first == graphemes(e1.rows[start.y + 1].string)
                            lastg == graphemes(e1.rows[end.y + 1].string)
                            first_line == GraphemeRange(first, 0, start.x)
                                              \o GraphemeRange(lastg, end.x, Len(lastg))
                        IN  [e1 EXCEPT !.rows =
                                SubSeq(e1.rows, 1, start.y)
                                    \o <<Row_new(first_line)>>
                                    \o SubSeq(e1.rows, end.y + 2, Len(e1.rows))]
         IN  IF e2.fault # "none" THEN e2
             ELSE [e2 EXCEPT !.cursor_position = start, !.dirty = TRUE]

\* Editor::insert_newline
insert_newline(e) ==
    LET x == e.cursor_position.x
        y == e.cursor_position.y
    IN  IF y = Len(e.rows)
        THEN [e EXCEPT !.rows = Append(e.rows, Row_new(<<>>)),
                       !.cursor_position = Position(0, y + 1)]
        ELSE IF y > Len(e.rows) THEN [e EXCEPT !.fault = "panic"]
        ELSE [e EXCEPT !.rows = SubSeq(e.rows, 1, y)
                                    \o <<split_self(e.rows[y + 1], x),
                                         split_returned(e.rows[y + 1], x)>>
                                    \o SubSeq(e.rows, y + 2, Len(e.rows)),
                       !.cursor_position = Position(0, y + 1)]

\* The smaller of two numbers
Min(a, b) == IF a <= b THEN a ELSE b

\* The text that copy_selection collects between start and end, which are
\* in order: [panic, content].  The columns index the chars of a row;
\* chars[a..b] panics when a > b, chars[a..] when a is past the end.  The
\* newline is the character "\n".
selected_content(rws, start, end) ==
    LET chars(y) == rws[y + 1].string
        has(y) == y < Len(rws)
    IN  IF start.y = end.y
        THEN IF ~has(start.y) THEN [panic |-> FALSE, content |-> <<>>]
             ELSE LET end_x == Min(end.x, Len(chars(start.y)))
                  IN  [panic |-> start.x > end_x,
                       content |-> SubSeq(chars(start.y), start.x + 1, end_x)]
        ELSE LET first == IF has(start.y)
                          THEN SubSeq(chars(start.y), start.x + 1, Len(chars(start.y)))
                                   \o <<"\n">>
                          ELSE <<>>
                 middle == concat([k \in 1..(end.y - start.y - 1) |->
                                      IF has(start.y + k)
                                      THEN chars(start.y + k) \o <<"\n">>
                                      ELSE <<>>])
                 lastr == IF has(end.y)
                          THEN SubSeq(chars(end.y), 1, Min(end.x, Len(chars(end.y))))
                          ELSE <<>>
             IN  [panic |-> has(start.y) /\ start.x > Len(chars(start.y)),
                  content |-> first \o middle \o lastr]

\* A variant of Editor::copy_selection that cuts: after a successful copy
\* the selected text is also deleted
copy_selection_cutting(e, ctx, held, set_ok) ==
    IF ~IsSome(e.selection) \/ is_empty(Unwrap(e.selection))
    THEN [e |-> e, clipboard |-> held]
    ELSE LET start == normalized(Unwrap(e.selection))[1]
             end == normalized(Unwrap(e.selection))[2]
             got == selected_content(e.rows, start, end)
         IN  IF got.panic THEN [e |-> [e EXCEPT !.fault = "panic"], clipboard |-> held]
             ELSE IF ~IsSome(ctx)
             THEN [e |-> [e EXCEPT !.status_message = StatusFrom("ClipboardUnavailable", -1)],
                   clipboard |-> held]
             ELSE IF ~set_ok
             THEN [e |-> [e EXCEPT !.status_message = StatusFrom("CopyFailed", -1)],
                   clipboard |-> held]
             ELSE [e |-> delete_selection(
                             [e EXCEPT !.status_message =
                                           StatusFrom("Copied", byte_len(got.content))]),
                   clipboard |-> got.content]

\* Editor::copy_selection with the clipboard provider ctx (None when there
\* is none) whose set_contents succeeds or fails: [e, clipboard], the editor
\* and the text in the system clipboard afterwards.
copy_selection(e, ctx, held, set_ok) ==
    IF ~IsSome(e.selection) \/ is_empty(Unwrap(e.selection))
    THEN [e |-> e, clipboard |-> held]
    ELSE LET start == normalized(Unwrap(e.selection))[1]
             end == normalized(Unwrap(e.selection))[2]
             got == selected_content(e.rows, start, end)
         IN  IF got.panic THEN [e |-> [e EXCEPT !.fault = "panic"], clipboard |-> held]
             ELSE IF ~IsSome(ctx)
             THEN [e |-> [e EXCEPT !.status_message = StatusFrom("ClipboardUnavailable", -1)],
                   clipboard |-> held]
             ELSE IF ~set_ok
             THEN [e |-> [e EXCEPT !.status_message = StatusFrom("CopyFailed", -1)],
                   clipboard |-> held]
             ELSE [e |-> [e EXCEPT !.status_message =
                                       StatusFrom("Copied", byte_len(got.content))],
                   clipboard |-> got.content]

RECURSIVE paste_text(_, _)
\* The loops of Editor::paste over the lines of the text: insert_char for
\* every character, insert_newline between two lines
paste_text(e, content) ==
    IF content = <<>> \/ e.fault # "none" THEN e
    ELSE paste_text(IF Head(content) = "\n" THEN insert_newline(e)
                    ELSE insert_char(e, Head(content)),
                    Tail(content))

\* Editor::paste with the clipboard provider ctx whose get_contents returns
\* the text held or fails
paste(e, ctx, held, get_ok) ==
    IF ~IsSome(ctx)
    THEN [e EXCEPT !.status_message = StatusFrom("ClipboardUnavailable", -1)]
    ELSE IF ~get_ok
    THEN [e EXCEPT !.status_message = StatusFrom("PasteFailed", -1)]
    ELSE LET e1 == IF IsSome(e.selection) THEN delete_selection(e) ELSE e
             e2 == paste_text(e1, held)
         IN  IF e2.fault # "none" THEN e2
             ELSE [e2 EXCEPT !.status_message = StatusFrom("Pasted", byte_len(held))]

\* ---------------------------------------------------------------- variables
VARIABLES
    row,        \* Row specification: the Row under test
    splitted,   \* the Row returned by the last split, or built by Row::new
    op,         \* the last Row operation: [name, at, c]
    pair,       \* the Row before a delete or split whose inverse may follow
    sel,        \* Selection specification: the Selection under test
    probe,      \* the Position last passed to contains
    hit,        \* what contains returned for it
    rows,             \* Editor.rows, the document
    cursor_position,  \* Editor.cursor_position
    offset,           \* Editor.offset
    screen,           \* Editor.screen_rows and Editor.screen_cols
    dirty,            \* Editor.dirty
    status_message,   \* Editor.status_message
    is_searching,     \* Editor.is_searching
    current_search,   \* Editor.current_search
    search_state,     \* Editor.search_state
    selection,        \* Editor.selection
    syntax_thread,    \* Editor.syntax_thread: "none", "running", "finished"
    prompt,           \* the prompt the editing thread is in, if any
    fault,            \* "none", or how the process ended: "panic", "hang"
    last,             \* the last editor operation and the state before it
    edits,            \* the number of editing keys pressed so far
    lock,             \* the RwLock of Editor.rows: its writer and its readers
    pc,               \* where each thread stands with respect to the lock
    signals,          \* the save signals sent and not yet received
    running,          \* the highlighting threads spawned and not yet ended
    filename,         \* Editor.filename
    should_quit,      \* Editor.should_quit
    quit_times,       \* Editor.quit_times
    sys_clipboard,    \* Editor.sys_clipboard: is there a clipboard provider
    clipboard,        \* the text the system clipboard holds
    quit_presses      \* the Ctrl-Q presses since the last other key press

rowVars == <<row, splitted, op, pair>>
selVars == <<sel, probe, hit>>
edVars == <<rows, cursor_position, offset, screen, dirty, status_message,
            is_searching, current_search, search_state, selection,
            syntax_thread, prompt, fault, last, edits>>
lockVars == <<lock, pc, signals, running>>
appVars == <<filename, should_quit, quit_times, sys_clipboard, clipboard,
             quit_presses>>
vars == <<row, splitted, op, pair, sel, probe, hit, rows, cursor_position,
          offset, screen, dirty, status_message, is_searching,
          current_search, search_state, selection, syntax_thread, prompt,
          fault, last, edits, lock, pc, signals, running, filename,
          should_quit, quit_times, sys_clipboard, clipboard, quit_presses>>

\* The editor state as one record, and its assignment to the next state
Ed ==
    [rows |-> rows, cursor_position |-> cursor_position, offset |-> offset,
     screen |-> screen, dirty |-> dirty, status_message |-> status_message,
     is_searching |-> is_searching, current_search |-> current_search,
     search_state |-> search_state, selection |-> selection,
     syntax_thread |-> syntax_thread, fault |-> fault]

SetEd(e) ==
    /\ rows' = e.rows
    /\ cursor_position' = e.cursor_position
    /\ offset' = e.offset
    /\ screen' = e.screen
    /\ dirty' = e.dirty
    /\ status_message' = e.status_message
    /\ is_searching' = e.is_searching
    /\ current_search' = e.current_search
    /\ search_state' = e.search_state
    /\ selection' = e.selection
    /\ syntax_thread' = e.syntax_thread
    /\ fault' = e.fault

\* Editor::new with the rows that open loaded.  Position::default() is (0,0).
EdNew(rws, scr) ==
    [rows |-> rws, cursor_position |-> Position(0, 0), offset |-> Position(0, 0),
     screen |-> scr, dirty |-> FALSE, status_message |-> StatusFrom("", -1),
     is_searching |-> FALSE, current_search |-> None,
     search_state |-> SearchStateDefault, selection |-> None,
     syntax_thread |-> "none", fault |-> "none"]

NoPrompt ==
    [kind |-> "none", result |-> <<>>, query |-> <<>>, polling |-> FALSE,
     saved_cursor_position |-> Position(0, 0), saved_offset |-> Position(0, 0)]

\* The last editor operation: its name, its key or argument, the prompt text
\* and the editor state it started from.
Last(name, key, query, before) ==
    [name |-> name, key |-> key, query |-> query, before |-> before]

NoLast == Last("none", Key(""), <<>>, EdNew(<<>>, [rows |-> 0, cols |-> 0]))

NoOp == [name |-> "new", at |-> 0, c |-> ""]
NoPair == [kind |-> "none", orig |-> Row_new(<<>>), at |-> 0]

\* Variables a specification does not use keep these values.
RowIdle == row = Row_new(<<>>) /\ splitted = Row_new(<<>>) /\ op = NoOp /\ pair = NoPair
SelIdle ==
    /\ sel = Selection(Position(0, 0), Position(0, 0))
    /\ probe = Position(0, 0)
    /\ hit = "none"
\* RwLock::new: no writer, no readers.  The editing thread is between two
\* operations, no highlighting thread was spawned yet, the save thread waits
\* in recv.
LockIdle ==
    /\ lock = [writer |-> "none", readers |-> {}]
    /\ pc = [main |-> [at |-> "idle", kind |-> ""], syntax |-> "none", save |-> "recv"]
    /\ signals = 0
    /\ running = 0
\* Editor::new: no file name, no quit asked for, QUIT_TIMES confirmations
\* left.  No clipboard provider, and nothing in the clipboard.
AppIdle ==
    /\ filename = None
    /\ should_quit = FALSE
    /\ quit_times = QUIT_TIMES
    /\ sys_clipboard = None
    /\ clipboard = <<>>
    /\ quit_presses = 0
EdInit(e) ==
    /\ rows = e.rows
    /\ cursor_position = e.cursor_position
    /\ offset = e.offset
    /\ screen = e.screen
    /\ dirty = e.dirty
    /\ status_message = e.status_message
    /\ is_searching = e.is_searching
    /\ current_search = e.current_search
    /\ search_state = e.search_state
    /\ selection = e.selection
    /\ syntax_thread = e.syntax_thread
    /\ fault = e.fault
EdIdle ==
    /\ EdInit(EdNew(<<>>, [rows |-> 0, cols |-> 0]))
    /\ prompt = NoPrompt
    /\ last = NoLast
    /\ edits = 0

\* ------------------------------------------------------- Row specification
\* Characters the Row specification types: a letter, a quote (it opens a
\* char literal), a wide ideograph and a combining accent.
RowAlphabet == {"a", "'", "U+4E16", "U+0301"}

RECURSIVE Strings(_, _)
\* All texts of at most n characters over alphabet A
Strings(A, n) ==
    IF n = 0 THEN {<<>>}
    ELSE LET shorter == Strings(A, n - 1)
         IN  shorter \cup {Append(s, c) : s \in shorter, c \in A}

Indices == 0..(MaxLen + 1)

RowInit ==
    /\ row \in {Row_new(s) : s \in Strings(RowAlphabet, MaxLen)}
    /\ splitted = Row_new(<<>>)
    /\ op = NoOp
    /\ pair = NoPair
    /\ SelIdle
    /\ LockIdle
    /\ AppIdle
    /\ EdIdle

\* row.insert(at, c)
RowInsert(at, c) ==
    /\ Len(row.string) < MaxLen
    /\ row' = insert(row, at, c)
    /\ op' = [name |-> "insert", at |-> at, c |-> c]
    /\ pair' = IF pair.kind = "delete" /\ pair.at = at
               THEN [pair EXCEPT !.kind = "delete_insert"]
               ELSE NoPair
    /\ UNCHANGED <<splitted, selVars, edVars, lockVars, appVars>>

\* row.delete(at)
RowDelete(at) ==
    /\ row' = delete(row, at)
    /\ op' = [name |-> "delete", at |-> at, c |-> ""]
    /\ pair' = IF at < row.len
               THEN [kind |-> "delete", orig |-> row, at |-> at]
               ELSE NoPair
    /\ UNCHANGED <<splitted, selVars, edVars, lockVars, appVars>>

\* splitted = row.split(at)
RowSplit(at) ==
    /\ row' = split_self(row, at)
    /\ splitted' = split_returned(row, at)
    /\ op' = [name |-> "split", at |-> at, c |-> ""]
    /\ pair' = [kind |-> "split", orig |-> row, at |-> at]
    /\ UNCHANGED <<selVars, edVars, lockVars, appVars>>

\* row.append(&splitted)
RowAppend ==
    /\ Len(row.string) + Len(splitted.string) <= MaxLen
    /\ row' = append(row, splitted)
    /\ op' = [name |-> "append", at |-> 0, c |-> ""]
    /\ pair' = IF pair.kind = "split"
               THEN [pair EXCEPT !.kind = "split_append"]
               ELSE NoPair
    /\ UNCHANGED <<splitted, selVars, edVars, lockVars, appVars>>

\* splitted = Row::new(s)
RowNew(s) ==
    /\ splitted' = Row_new(s)
    /\ op' = NoOp
    /\ pair' = NoPair
    /\ UNCHANGED <<row, selVars, edVars, lockVars, appVars>>

RowNext ==
    \/ \E at \in Indices, c \in RowAlphabet : RowInsert(at, c)
    \/ \E at \in Indices : RowDelete(at)
    \/ \E at \in Indices : RowSplit(at)
    \/ RowAppend
    \/ \E s \in Strings(RowAlphabet, 1) : RowNew(s)

SpecRow == RowInit /\ [][RowNext]_vars

\* Whether the derived fields of a Row agree with its text
FieldsAgree(r) ==
    /\ r.len = Len(graphemes(r.string))
    /\ r.display_len = width(r.string)

\* C1: after insert, delete, split or append the row has as many highlight
\* tags as its len says it has graphemes.
C1_TagsMatchLen ==
    op.name \in {"insert", "delete", "split", "append"}
        => Len(row.highlighting) = row.len

\* C24: Row.delete(at) changes nothing when at >= len; otherwise it removes
\* exactly the grapheme with index at, keeps the other graphemes in order,
\* and decreases len by 1 and display_len by the width of that grapheme.
C24_DeleteRemovesOne ==
    [][\A at \in Indices :
          RowDelete(at) =>
              LET gs == graphemes(row.string)
              IN  IF at >= row.len
                  THEN /\ row'.string = row.string
                       /\ row'.len = row.len
                       /\ row'.display_len = row.display_len
                  ELSE at < Len(gs) =>
                       /\ row'.string = GraphemeRange(gs, 0, at)
                                            \o GraphemeRange(gs, at + 1, Len(gs))
                       /\ row'.len = row.len - 1
                       /\ row'.display_len =
                              row.display_len - width(GraphemeRange(gs, at, at + 1))]_vars

\* C2 as stated: delete(at) then insert(at, c), at < len, restores len and
\* display_len whatever c is.
C2_DeleteInsertRestores ==
    pair.kind = "delete_insert"
        => /\ row.len = pair.orig.len
           /\ row.display_len = pair.orig.display_len

\* The grapheme that delete(at) removes from a text, <<>> if there is none
RemovedGrapheme(string, at) ==
    IF at < Len(graphemes(string)) THEN graphemes(string)[at + 1] ELSE <<>>

\* C2, amended: delete(at) then insert(at, c), at < len, leaves len equal to
\* the number of graphemes of the text before the delete (one more when at
\* is past them) and display_len equal to the width of that text less the
\* width of the removed grapheme plus the width of c: display_len comes back
\* only when c is as wide as what was removed.
C2_DeleteInsertWidths ==
    pair.kind = "delete_insert"
        => LET old == pair.orig.string
               n == Len(graphemes(old))
           IN  /\ row.len = IF pair.at < n THEN n ELSE n + 1
               /\ row.display_len =
                      width(old) - width(RemovedGrapheme(old, pair.at))
                          + CharWidth(op.c)

\* A delete and insert at a grapheme of the row, with a character of another
\* width than the grapheme removed
C2_Witness ==
    /\ pair.kind = "delete_insert"
    /\ pair.at < Len(graphemes(pair.orig.string))
    /\ CharWidth(op.c) # width(RemovedGrapheme(pair.orig.string, pair.at))
    /\ row.display_len # pair.orig.display_len
    /\ row.len = pair.orig.len

\* C3: split(at) then append of the returned row gives back the original
\* text, len and display_len.
C3_SplitAppendRoundTrip ==
    pair.kind = "split_append"
        => /\ row.string = pair.orig.string
           /\ row.len = pair.orig.len
           /\ row.display_len = pair.orig.display_len

\* ------------------------------------------------- Selection specification
Coords == 0..MaxCoord
Positions == {Position(x, y) : x \in Coords, y \in Coords}

SelInit ==
    /\ SelIdle
    /\ LockIdle
    /\ AppIdle
    /\ RowIdle
    /\ EdIdle

\* sel = Selection::new(start)
SelNew(start) ==
    /\ sel' = Selection(start, start)
    /\ hit' = "none"
    /\ UNCHANGED <<probe, rowVars, edVars, lockVars, appVars>>

\* sel.end = end, as Editor::update_selection assigns it
SelSetEnd(end) ==
    /\ sel' = [sel EXCEPT !.end = end]
    /\ hit' = "none"
    /\ UNCHANGED <<probe, rowVars, edVars, lockVars, appVars>>

\* hit = sel.contains(pos)
SelContains(pos) ==
    /\ probe' = pos
    /\ hit' = IF contains(sel, pos) THEN "true" ELSE "false"
    /\ UNCHANGED <<sel, rowVars, edVars, lockVars, appVars>>

SelNext ==
    \/ \E start \in Positions : SelNew(start)
    \/ \E end \in Positions : SelSetEnd(end)
    \/ \E pos \in Positions : SelContains(pos)

SpecSel == SelInit /\ [][SelNext]_vars

\* C6: contains(p) gives the same answer for a selection and for the
\* selection with start and end swapped.
C6_ContainsSwapInvariant ==
    hit # "none"
        => (hit = "true") = contains(Selection(sel.end, sel.start), probe)

\* A selection stored backwards over several rows that contains the probed
\* position on its last row
C6_Witness ==
    /\ hit = "true"
    /\ sel.start.y > sel.end.y
    /\ probe.y = sel.start.y
    /\ probe.x < sel.start.x

\* C25: contains(p) holds exactly when s <= p < e in row-major order (y,
\* then x), s and e being the endpoints in that order; an empty selection
\* contains no position.
C25_ContainsIsHalfOpenRange ==
    hit # "none"
        => LET Le(a, b) == a.y < b.y \/ (a.y = b.y /\ a.x <= b.x)
               Lt(a, b) == a.y < b.y \/ (a.y = b.y /\ a.x < b.x)
               s == IF Le(sel.start, sel.end) THEN sel.start ELSE sel.end
               e == IF Le(sel.start, sel.end) THEN sel.end ELSE sel.start
           IN  /\ (hit = "true") = (Le(s, probe) /\ Lt(probe, e))
               /\ is_empty(sel) => hit = "false"

\* A selection over several rows that contains the last position before
\* its end
C25_Witness ==
    /\ hit = "true"
    /\ sel.start.y < sel.end.y
    /\ probe.y = sel.end.y
    /\ probe.x = sel.end.x - 1

\* ------------------------------------------------- search and replace modes
\* The example document of the specification
ExampleDoc ==
    << <<"l","e","t"," ","x"," ","=", " ", "1", ";">>,
       <<"/","/"," ","c","o","m","m","e","n","t">>,
       <<"l","e","t"," ","y"," ","="," ","\"","h","i","\"",";">> >>

\* All prefixes of the texts of a set
Prefixes(S) == UNION {{SubSeq(s, 1, k) : k \in 0..Len(s)} : s \in S}

\* The terminal sizes tried: a tiny screen that scrolls, and 80 x 24 (the
\* editor keeps two lines for its bars).
Screens == {[rows |-> 2, cols |-> 3], [rows |-> 22, cols |-> 80]}

\* Entering a prompt from Editor::search or Editor::replace
PromptStart(kind) ==
    [kind |-> kind, result |-> <<>>, query |-> <<>>, polling |-> FALSE,
     saved_cursor_position |-> cursor_position, saved_offset |-> offset]

\* The top of the loop of Editor::prompt: the prompt line becomes the status
\* message and the screen is drawn; then the loop polls for a key.
PromptLoopTop ==
    /\ prompt.kind # "none" /\ ~prompt.polling /\ fault = "none"
    /\ SetEd(refresh_screen([Ed EXCEPT !.status_message = StatusFrom("Prompt", -1)]))
    /\ prompt' = [prompt EXCEPT !.polling = TRUE]
    /\ last' = Last("prompt", Key(""), prompt.result, Ed)
    /\ UNCHANGED <<rowVars, selVars, edits, lockVars, appVars>>

\* No key arrives for five seconds: Editor::run_loop draws the screen and
\* refresh_screen, outside search mode, clears a status message that is
\* neither persistent nor empty.
StatusExpire ==
    /\ prompt.kind = "none" /\ fault = "none"
    /\ ~is_searching
    /\ status_message.message_type = "Normal"
    /\ ~status_message.persistent
    /\ status_message.text # ""
    /\ SetEd(refresh_screen([Ed EXCEPT !.status_message = StatusFrom("", -1)]))
    /\ last' = Last("refresh_screen", Key(""), <<>>, NoLast.before)
    /\ UNCHANGED <<prompt, edits, rowVars, selVars, lockVars, appVars>>

\* The else branch of Editor::search, after the prompt returned None
search_cancelled(e, p) ==
    refresh_screen(
        [e EXCEPT !.cursor_position = p.saved_cursor_position,
                  !.offset = p.saved_offset,
                  !.is_searching = FALSE,
                  !.current_search = None,
                  !.search_state.last_match = None,
                  !.status_message = StatusFrom("", -1)])

\* The else branch of Editor::replace, after the prompt returned None
replace_cancelled(e, p) ==
    refresh_screen(
        [e EXCEPT !.cursor_position = p.saved_cursor_position,
                  !.offset = p.saved_offset,
                  !.is_searching = FALSE,
                  !.current_search = None,
                  !.search_state.last_match = None])

\* The if branch of Editor::replace, after the prompt returned Some(query)
replace_finished(e) ==
    LET e1 == refresh_screen([e EXCEPT !.is_searching = FALSE,
                                       !.current_search = None])
    IN  IF IsSome(e1.search_state.last_match)
        THEN [e1 EXCEPT !.status_message = StatusFrom("ReplaceDone", -1)]
        ELSE e1

\* result.truncate(result.len() - 1) cuts one byte: it panics inside a
\* character of several bytes.
TruncatePanics(result) == Utf8Len(result[Len(result)]) > 1
Truncated(result) == SubSeq(result, 1, Len(result) - 1)

\* Ctrl-F: Editor::search enters its prompt
CtrlF ==
    /\ prompt.kind = "none" /\ fault = "none"
    /\ SetEd([Ed EXCEPT !.is_searching = TRUE])
    /\ prompt' = PromptStart("search")
    /\ last' = Last("search", Key("Ctrl-F"), <<>>, Ed)
    /\ UNCHANGED <<rowVars, selVars, edits, lockVars, appVars>>

\* A key press in the prompt of Editor::search: the match of Editor::prompt
\* on the key, with find_callback as the callback.
SearchKey(key, typed) ==
    /\ prompt.kind = "search" /\ prompt.polling /\ fault = "none"
    /\ key.code = "Char" => Append(prompt.result, key.c) \in Prefixes(typed)
    /\ LET result == IF key.code = "Char" THEN Append(prompt.result, key.c)
                      ELSE IF key.code = "Backspace" /\ prompt.result # <<>>
                                /\ ~TruncatePanics(prompt.result)
                      THEN Truncated(prompt.result)
                      ELSE prompt.result
           r == find_callback(Ed, result, key)
       IN  IF key.code = "Backspace" /\ prompt.result = <<>>
           THEN /\ prompt' = [prompt EXCEPT !.polling = FALSE]
                /\ last' = Last("prompt_key", key, result, Ed)
                /\ UNCHANGED <<rows, cursor_position, offset, screen, dirty,
                               status_message, is_searching, current_search,
                               search_state, selection, syntax_thread, fault>>
           ELSE IF key.code = "Backspace" /\ TruncatePanics(prompt.result)
           THEN /\ SetEd([Ed EXCEPT !.fault = "panic"])
                /\ last' = Last("prompt_key", key, result, Ed)
                /\ UNCHANGED prompt
           ELSE IF key.code = "Esc"
           THEN /\ SetEd(search_cancelled(r.e, prompt))
                /\ prompt' = NoPrompt
                /\ last' = Last("find_callback", key, result, Ed)
           ELSE IF key.code = "Enter" /\ r.ret = "false"
           THEN /\ SetEd(refresh_screen(r.e))
                /\ prompt' = NoPrompt
                /\ last' = Last("find_callback", key, result, Ed)
           ELSE /\ SetEd(r.e)
                /\ prompt' = [prompt EXCEPT !.result = result, !.polling = FALSE]
                /\ last' = Last("find_callback", key, result, Ed)
    /\ UNCHANGED <<rowVars, selVars, edits, lockVars, appVars>>

\* Ctrl-H: Editor::replace enters its prompt
CtrlH ==
    /\ prompt.kind = "none" /\ fault = "none"
    /\ SetEd([Ed EXCEPT !.is_searching = TRUE])
    /\ prompt' = PromptStart("replace")
    /\ last' = Last("replace", Key("Ctrl-H"), <<>>, Ed)
    /\ UNCHANGED <<rowVars, selVars, edits, lockVars, appVars>>

\* A key press in the prompt of Editor::replace, with replace_callback as
\* the callback.  On Enter at a match the callback enters its inner prompt.
ReplaceKey(key, typed) ==
    /\ prompt.kind = "replace" /\ prompt.polling /\ fault = "none"
    /\ key.code = "Char" => Append(prompt.result, key.c) \in Prefixes(typed)
    /\ LET result == IF key.code = "Char" THEN Append(prompt.result, key.c)
                      ELSE IF key.code = "Backspace" /\ prompt.result # <<>>
                                /\ ~TruncatePanics(prompt.result)
                      THEN Truncated(prompt.result)
                      ELSE prompt.result
           r == replace_callback(Ed, result, key)
       IN  IF key.code = "Backspace" /\ prompt.result = <<>>
           THEN /\ prompt' = [prompt EXCEPT !.polling = FALSE]
                /\ last' = Last("prompt_key", key, result, Ed)
                /\ UNCHANGED <<rows, cursor_position, offset, screen, dirty,
                               status_message, is_searching, current_search,
                               search_state, selection, syntax_thread, fault>>
           ELSE IF key.code = "Backspace" /\ TruncatePanics(prompt.result)
           THEN /\ SetEd([Ed EXCEPT !.fault = "panic"])
                /\ last' = Last("prompt_key", key, result, Ed)
                /\ UNCHANGED prompt
           ELSE IF key.code = "Esc"
           THEN /\ SetEd(replace_cancelled(r.e, prompt))
                /\ prompt' = NoPrompt
                /\ last' = Last("replace_callback", key, result, Ed)
           ELSE IF key.code = "Enter" /\ r.ret = "prompt"
           THEN /\ SetEd(r.e)
                /\ prompt' = [prompt EXCEPT !.kind = "replace_with",
                                            !.query = result,
                                            !.result = <<>>,
                                            !.polling = FALSE]
                /\ last' = Last("replace_callback", key, result, Ed)
           ELSE IF key.code = "Enter" /\ r.ret = "false"
           THEN /\ SetEd(replace_finished(r.e))
                /\ prompt' = NoPrompt
                /\ last' = Last("replace_callback", key, result, Ed)
           ELSE /\ SetEd(r.e)
                /\ prompt' = [prompt EXCEPT !.result = result, !.polling = FALSE]
                /\ last' = Last("replace_callback", key, result, Ed)
    /\ UNCHANGED <<rowVars, selVars, edits, lockVars, appVars>>

\* A key press in the inner prompt "Replace with: " of replace_callback (no
\* callback).  Enter returns the text: the match is replaced and the outer
\* prompt goes on.  Esc returns None: replace_callback returns false, the
\* outer prompt returns its query and Editor::replace ends.
ReplaceWithKey(key, typed) ==
    /\ prompt.kind = "replace_with" /\ prompt.polling /\ fault = "none"
    /\ key.code = "Char" => Append(prompt.result, key.c) \in Prefixes(typed)
    /\ IF key.code = "Enter"
       THEN /\ SetEd(replace_with(Ed, prompt.result))
            /\ prompt' = [prompt EXCEPT !.kind = "replace",
                                        !.result = prompt.query,
                                        !.query = <<>>,
                                        !.polling = FALSE]
            /\ last' = Last("replace_with", key, prompt.result, Ed)
       ELSE IF key.code = "Esc"
       THEN /\ SetEd(replace_finished(Ed))
            /\ prompt' = NoPrompt
            /\ last' = Last("replace_esc", key, prompt.result, Ed)
       ELSE IF key.code = "Backspace" /\ prompt.result # <<>>
                /\ TruncatePanics(prompt.result)
       THEN /\ SetEd([Ed EXCEPT !.fault = "panic"])
            /\ last' = Last("prompt_key", key, prompt.result, Ed)
            /\ UNCHANGED prompt
       ELSE /\ prompt' = [prompt EXCEPT
                              !.result =
                                  IF key.code = "Char" THEN Append(@, key.c)
                                  ELSE IF key.code = "Backspace" /\ @ # <<>>
                                  THEN Truncated(@)
                                  ELSE @,
                              !.polling = FALSE]
            /\ last' = Last("prompt_key", key, prompt.result, Ed)
            /\ UNCHANGED <<rows, cursor_position, offset, screen, dirty,
                           status_message, is_searching, current_search,
                           search_state, selection, syntax_thread, fault>>
    /\ UNCHANGED <<rowVars, selVars, edits, lockVars, appVars>>

\* ---------------------------------------------------- Search specification
\* The rows that Editor::open builds from the lines of a file
Document(lines) == [i \in 1..Len(lines) |-> Row_new(lines[i])]

\* Documents searched: none, the example, two rows with a character of
\* two bytes in front of the occurrences, and one row that starts with a
\* wide ideograph
SearchDocs ==
    {<<>>, ExampleDoc,
     << <<"U+00E9","l","e","l","e">>, <<"e","l">> >>,
     << <<"U+4E16","l","e">> >>}

\* Texts typed into the search prompt
SearchQueries == {<<"l","e","t">>, <<"l","e">>, <<"n">>, <<"q">>}

SearchKeys ==
    {Key("Enter"), Key("Esc"), Key("Backspace"), Key("Right"), Key("Down"),
     Key("Left"), Key("Up"), Key("Tab")}
        \cup {CharKey(c) : c \in {"l", "e", "t", "n", "q"}}

SearchInit ==
    /\ \E lines \in SearchDocs, scr \in Screens : EdInit(EdNew(Document(lines), scr))
    /\ prompt = NoPrompt
    /\ last = NoLast
    /\ edits = 0
    /\ RowIdle
    /\ SelIdle
    /\ LockIdle
    /\ AppIdle

SearchNext ==
    \/ CtrlF
    \/ PromptLoopTop
    \/ \E key \in SearchKeys : SearchKey(key, SearchQueries)

SpecSearch == SearchInit /\ [][SearchNext]_vars

\* Whether query occurs in a text, at any character index
Occurs(text, query) ==
    \E k \in 0..(Len(text) - Len(query)) : SubSeq(text, k + 1, k + Len(query)) = query

OccursInDocument(rws, query) == \E i \in 1..Len(rws) : Occurs(rws[i].string, query)

\* The last operation was a find_callback step that searches forward
ForwardStep ==
    /\ last.name = "find_callback"
    /\ last.query # <<>>
    /\ \/ last.key.code \in {"Enter", "Right", "Down"}
       \/ last.key = CharKey("n")

\* C4: a forward search step for a query that occurs nowhere reports "not
\* found" as an error, leaves the anchor at (0,0) and changes neither the
\* cursor nor the document.
C4_MissResetsAnchor ==
    (ForwardStep /\ ~OccursInDocument(last.before.rows, last.query))
        => /\ fault = "none"
           /\ status_message = StatusError("NotFound")
           /\ search_state.last_match = Some(Position(0, 0))
           /\ cursor_position = last.before.cursor_position
           /\ rows = last.before.rows

\* The "next" step of the example: Right or Down with the query "let" in
\* the example document, from the anchor at the occurrence (x, y)
NextStepFrom(x, y) ==
    /\ last.name = "find_callback"
    /\ last.key.code \in {"Right", "Down"}
    /\ last.query = <<"l","e","t">>
    /\ last.before.rows = Document(ExampleDoc)
    /\ last.before.search_state.last_match = Some(Position(x, y))

\* C5: in the example document the first search for "let" finds row 0
\* column 0, "next" from there finds row 2 column 0, and "next" from there
\* wraps around to row 0 column 0.
C5_NextVisitsSuccessiveMatches ==
    /\ (/\ last.name = "find_callback" /\ last.key.code = "Enter"
         /\ last.query = <<"l","e","t">> /\ last.before.rows = Document(ExampleDoc))
            => search_state.last_match = Some(Position(0, 0))
    /\ NextStepFrom(0, 0) => search_state.last_match = Some(Position(0, 2))
    /\ NextStepFrom(0, 2) => search_state.last_match = Some(Position(0, 0))

\* C18: every search step for a non-empty query, in either direction,
\* ends: the scan loop of find_callback stops with a match or with "not
\* found" and never runs on for ever.
C18_SearchStepTerminates ==
    (last.name = "find_callback" /\ last.query # <<>>) => fault # "hang"

\* The grapheme index of the rightmost occurrence of query in the text of
\* row r that starts before x, or -1
RightmostBefore(r, query, x) ==
    LET gs == graphemes(r.string)
        hits == {k \in 0..(Len(gs) - 1) :
                    /\ k < x
                    /\ LET rest == GraphemeRange(gs, k, Len(gs))
                       IN  /\ Len(rest) >= Len(query)
                           /\ SubSeq(rest, 1, Len(query)) = query}
    IN  IF hits = {} THEN -1 ELSE CHOOSE k \in hits : \A j \in hits : k >= j

\* The last operation was a find_callback step that searches backward from
\* an anchor
BackwardStep ==
    /\ last.name = "find_callback"
    /\ last.query # <<>>
    /\ last.key.code \in {"Left", "Up"}
    /\ IsSome(last.before.search_state.last_match)
    /\ last.before.rows # <<>>

\* C19: a backward search step from the anchor (y, x) reports the rightmost
\* occurrence in row y that starts before x; if there is none it goes to the
\* previous row, wrapping from row 0 to the last row, and reports the
\* rightmost occurrence of that whole row, and so on for one lap; a query
\* that occurs nowhere is reported as not found.
C19_BackwardStepFindsPrevious ==
    BackwardStep =>
        LET rws == last.before.rows
            n == Len(rws)
            a == Unwrap(last.before.search_state.last_match)
            inRow == RightmostBefore(rws[a.y + 1], last.query, a.x)
            RowBack(d) == (a.y + n - d) % n
            Whole(d) == RightmostBefore(rws[RowBack(d) + 1], last.query,
                                        Len(rws[RowBack(d) + 1].string) + 1)
            others == {d \in 1..(n - 1) : Whole(d) # -1}
            nearest == CHOOSE d \in others : \A j \in others : d <= j
        IN  /\ inRow # -1
                => search_state.last_match = Some(Position(inRow, a.y))
            /\ (inRow = -1 /\ others # {})
                => search_state.last_match =
                       Some(Position(Whole(nearest), RowBack(nearest)))
            /\ ~OccursInDocument(rws, last.query)
                => status_message = StatusError("NotFound")

\* The last operation was a find_callback step that reported a match
MatchFound ==
    /\ last.name = "find_callback"
    /\ last.query # <<>>
    /\ fault = "none"
    /\ status_message = StatusSearch("Found")

\* The offset that shows index m on a screen of the given size: off when m
\* is on screen, else the nearer edge
NearerEdge(off, m, size) ==
    IF m < off THEN m
    ELSE IF m >= off + size THEN m - size + 1
    ELSE off

\* C21: after a successful search match at (my, mx) the cursor and the
\* anchor are both (my, mx) and the viewport contains the match; the offset
\* is unchanged when the match was on screen and else moves to the nearer
\* edge.
C21_MatchIsShown ==
    MatchFound =>
        LET m == Unwrap(search_state.last_match)
            b == last.before
        IN  /\ IsSome(search_state.last_match)
            /\ cursor_position = m
            /\ offset.y <= m.y /\ m.y < offset.y + screen.rows
            /\ offset.x <= m.x /\ m.x < offset.x + screen.cols
            /\ offset = Position(NearerEdge(b.offset.x, m.x, screen.cols),
                                 NearerEdge(b.offset.y, m.y, screen.rows))

\* The grapheme index of the first occurrence of query in the text of row
\* r, or -1
FirstIn(r, query) ==
    LET gs == graphemes(r.string)
        hits == {k \in 0..(Len(gs) - 1) :
                    LET rest == GraphemeRange(gs, k, Len(gs))
                    IN  /\ Len(rest) >= Len(query)
                        /\ SubSeq(rest, 1, Len(query)) = query}
    IN  IF hits = {} THEN -1 ELSE CHOOSE k \in hits : \A j \in hits : k <= j

\* C22: Enter in search mode with a non-empty query reports a match
\* exactly when the query occurs in the document, and the match is the
\* first occurrence in row-major order, whatever the anchor and the
\* direction were before.
C22_EnterFindsFirstOccurrence ==
    (last.name = "find_callback" /\ last.key.code = "Enter" /\ last.query # <<>>)
        => LET rws == last.before.rows
               having == {y \in 1..Len(rws) : FirstIn(rws[y], last.query) # -1}
               first == CHOOSE y \in having : \A j \in having : y <= j
           IN  IF having = {}
               THEN status_message = StatusError("NotFound")
               ELSE /\ status_message = StatusSearch("Found")
                    /\ search_state.last_match =
                           Some(Position(FirstIn(rws[first], last.query), first - 1))

\* --------------------------------------------------- Replace specification
\* Documents of the replace workflow: none, the example, and one row with
\* three occurrences of "="
ReplaceDocs ==
    {<<>>, ExampleDoc, << <<"=","="," ","=">> >>}

\* Texts typed into the prompt "Search (for replace): "
ReplaceQueries == {<<"l","e","t">>, <<"=">>}

\* Texts typed into the prompt "Replace with: "
ReplaceTexts == {<<"v","a","r">>}

ReplaceKeys ==
    {Key("Enter"), Key("Esc"), Key("Backspace"), Key("Right"), Key("Left"),
     Key("Tab")}
        \cup {CharKey(c) : c \in {"l", "e", "t", "="}}

ReplaceWithKeys ==
    {Key("Enter"), Key("Esc"), Key("Backspace"), Key("Tab")}
        \cup {CharKey(c) : c \in {"v", "a", "r"}}

ReplaceInit ==
    /\ \E lines \in ReplaceDocs :
           EdInit(EdNew(Document(lines), [rows |-> 22, cols |-> 80]))
    /\ prompt = NoPrompt
    /\ last = NoLast
    /\ edits = 0
    /\ RowIdle
    /\ SelIdle
    /\ LockIdle
    /\ AppIdle

\* The user presses Enter on nothing or on a whole text, not on a part of one
EnterOnWhole(key, texts) ==
    key.code = "Enter" => prompt.result \in texts \cup {<<>>}

ReplaceNext ==
    \/ CtrlH
    \/ PromptLoopTop
    \/ StatusExpire
    \/ \E key \in ReplaceKeys :
           EnterOnWhole(key, ReplaceQueries) /\ ReplaceKey(key, ReplaceQueries)
    \/ \E key \in ReplaceWithKeys :
           EnterOnWhole(key, ReplaceTexts) /\ ReplaceWithKey(key, ReplaceTexts)

SpecReplace == ReplaceInit /\ [][ReplaceNext]_vars

\* The last operation replaced: Enter in the prompt "Replace with: ".  The
\* query is current_search, the replacement the text of the inner prompt.
ReplaceStep ==
    /\ last.name = "replace_with"
    /\ IsSome(last.before.current_search)
    /\ IsSome(last.before.search_state.last_match)

\* The anchor of an editor state is an occurrence of its query
AnchorIsMatch(e) ==
    LET pos == Unwrap(e.search_state.last_match)
        q == Unwrap(e.current_search)
    IN  /\ pos.y < Len(e.rows)
        /\ SubSeq(e.rows[pos.y + 1].string, pos.x + 1, pos.x + Len(q)) = q

\* C7: the replace workflow replaces every occurrence of the query in the
\* document, leaves the other rows alone and reports the number replaced.
C7_WholeDocumentReplace ==
    ReplaceStep =>
        LET q == Unwrap(last.before.current_search)
            r == last.query
            RECURSIVE ReplaceAll(_)
            ReplaceAll(text) ==
                IF Len(text) < Len(q) THEN text
                ELSE IF SubSeq(text, 1, Len(q)) = q
                THEN r \o ReplaceAll(SubSeq(text, Len(q) + 1, Len(text)))
                ELSE <<Head(text)>> \o ReplaceAll(Tail(text))
            RECURSIVE Count(_)
            Count(text) ==
                IF Len(text) < Len(q) THEN 0
                ELSE IF SubSeq(text, 1, Len(q)) = q
                THEN 1 + Count(SubSeq(text, Len(q) + 1, Len(text)))
                ELSE Count(Tail(text))
            RECURSIVE Total(_)
            Total(i) ==
                IF i = 0 THEN 0
                ELSE Count(last.before.rows[i].string) + Total(i - 1)
        IN  /\ \A i \in 1..Len(rows) :
                   rows[i].string = ReplaceAll(last.before.rows[i].string)
            /\ status_message.n = Total(Len(last.before.rows))

\* C9: a single-match replace at an anchor that is an occurrence of q puts
\* the replacement in place of exactly that occurrence, leaves the other
\* rows alone, and recomputes len, display_len and highlighting of the row.
C9_ReplaceSubstitutesMatch ==
    (ReplaceStep /\ AnchorIsMatch(last.before)) =>
        LET pos == Unwrap(last.before.search_state.last_match)
            q == Unwrap(last.before.current_search)
            old == last.before.rows[pos.y + 1].string
            new == SubSeq(old, 1, pos.x) \o last.query
                       \o SubSeq(old, pos.x + Len(q) + 1, Len(old))
        IN  rows = [last.before.rows EXCEPT ![pos.y + 1] = Row_new(new)]

\* C29: whenever search mode or replace mode ends (the prompt of
\* Editor::search or Editor::replace returns, by Esc or otherwise) the
\* SearchState is reset: no anchor, no replacement text, direction forward.
C29_ModeExitResetsSearchState ==
    [][(prompt.kind # "none" /\ prompt'.kind = "none" /\ fault' = "none")
          => search_state' = [last_match |-> None, direction |-> 1,
                              replace_text |-> None]]_vars

\* The last operation was a search step of the named callback that found
\* nothing
Miss(callback) ==
    /\ last.name = callback
    /\ last.query # <<>>
    /\ fault = "none"
    /\ status_message = StatusError("NotFound")

\* C30: a search miss is reported by the status message and changes no row;
\* after a miss in plain search the search prompt is still open, and a miss
\* in the search step of replace ends the replace prompt without asking
\* for a replacement text.
C30_MissKeepsSearchEndsReplace ==
    /\ Miss("find_callback")
           => rows = last.before.rows /\ prompt.kind = "search"
    /\ Miss("replace_callback")
           => rows = last.before.rows /\ prompt.kind = "none"

\* C36: after any sequence of keys, search and replace sessions ended by
\* Enter or Esc included, the cursor stays inside the document:
\* cursor.y <= number of rows and cursor.x <= the grapheme length of row
\* cursor.y, with cursor.x = 0 on the line after the last row.
C36_CursorInsideDocument ==
    fault = "none" =>
        /\ cursor_position.y <= Len(rows)
        /\ IF cursor_position.y < Len(rows)
           THEN cursor_position.x
                    <= Len(graphemes(rows[cursor_position.y + 1].string))
           ELSE cursor_position.x = 0

\* ------------------------------------------------------ Edit specification
\* Documents edited: none, the first line of the example, and two short
\* rows, one with a wide character
EditDocs ==
    {<<>>,
     << <<"l","e","t"," ","x"," ","="," ","1",";">> >>,
     << <<"a">>, <<"U+4E16","b">> >>}

\* Characters typed: a letter and a combining accent
EditChars == {"a", "U+0301"}

ArrowCodes == {"Up", "Down", "Left", "Right"}

EditInit ==
    /\ \E lines \in EditDocs :
           EdInit(EdNew(Document(lines), [rows |-> 22, cols |-> 80]))
    /\ prompt = NoPrompt
    /\ last = NoLast
    /\ edits = 0
    /\ RowIdle
    /\ SelIdle
    /\ LockIdle
    /\ AppIdle

\* Editor::run_loop after process_keypress returned: the screen is drawn
run_loop(e) == IF e.fault = "none" THEN refresh_screen(e) ELSE e

\* An operation whose key and starting state are not kept
Did(name) == Last(name, Key(""), <<>>, NoLast.before)

\* An arrow key, with or without Shift
ArrowKey(code, shift) ==
    /\ prompt.kind = "none" /\ fault = "none"
    /\ SetEd(run_loop(
           IF shift
           THEN update_selection(
                    move_cursor(IF IsSome(selection) THEN Ed ELSE start_selection(Ed),
                                Key(code)))
           ELSE move_cursor(clear_selection(Ed), Key(code))))
    /\ last' = Did("move_cursor")
    /\ UNCHANGED <<prompt, edits, rowVars, selVars, lockVars, appVars>>

\* Delete or Backspace
DeleteKey(code) ==
    /\ prompt.kind = "none" /\ fault = "none"
    /\ edits < MaxEdits
    /\ SetEd(run_loop(IF IsSome(selection) THEN delete_selection(Ed)
                      ELSE delete_char(Ed)))
    /\ last' = Last(IF IsSome(selection) THEN "delete_selection" ELSE "delete_char",
                    Key(code), <<>>, Ed)
    /\ edits' = edits + 1
    /\ UNCHANGED <<prompt, rowVars, selVars, lockVars, appVars>>

\* A character key without modifiers, in a row that is not yet MaxLen
\* characters long
TypeChar(c) ==
    /\ prompt.kind = "none" /\ fault = "none"
    /\ edits < MaxEdits
    /\ cursor_position.y < Len(rows)
           => Len(rows[cursor_position.y + 1].string) < MaxLen
    /\ SetEd(run_loop(insert_char(clear_selection(Ed), c)))
    /\ last' = Last("insert_char", CharKey(c), <<>>, Ed)
    /\ edits' = edits + 1
    /\ UNCHANGED <<prompt, rowVars, selVars, lockVars, appVars>>

\* The highlighting thread takes the write lock and runs
SyntaxThreadRun ==
    /\ syntax_thread = "running" /\ fault = "none"
    /\ SetEd(syntax_thread_body(Ed))
    /\ last' = Did("syntax_thread")
    /\ UNCHANGED <<prompt, edits, rowVars, selVars, lockVars, appVars>>

EditNext ==
    \/ \E code \in ArrowCodes, shift \in BOOLEAN : ArrowKey(code, shift)
    \/ \E code \in {"Delete", "Backspace"} : DeleteKey(code)
    \/ \E c \in EditChars : TypeChar(c)
    \/ SyntaxThreadRun

SpecEdit == EditInit /\ [][EditNext]_vars

\* The last operation deleted a selection that was not empty and lay on one
\* row
SameRowDelete ==
    /\ last.name = "delete_selection"
    /\ ~is_empty(Unwrap(last.before.selection))
    /\ Unwrap(last.before.selection).start.y = Unwrap(last.before.selection).end.y

\* C8: deleting a selection that is not empty and lies on one row leaves of
\* that row the graphemes in front of s.x and those from e.x on, leaves
\* every other row as it was and puts the cursor at s, where s and e are
\* the endpoints in order.
C8_SameRowDeleteKeepsOutside ==
    SameRowDelete =>
        LET old == Unwrap(last.before.selection)
            y == old.start.y
            sx == IF old.start.x <= old.end.x THEN old.start.x ELSE old.end.x
            ex == IF old.start.x <= old.end.x THEN old.end.x ELSE old.start.x
            gs == graphemes(last.before.rows[y + 1].string)
            n == Len(gs)
            upto(k) == IF k > n THEN n ELSE k
        IN  /\ fault = "none"
            /\ Len(rows) = Len(last.before.rows)
            /\ rows[y + 1].string =
                   concat(SubSeq(gs, 1, upto(sx))) \o concat(SubSeq(gs, upto(ex) + 1, n))
            /\ \A i \in 1..Len(rows) : i # y + 1 => rows[i] = last.before.rows[i]
            /\ cursor_position = Position(sx, y)

\* The example: (0,4)-(0,5) selected in "let x = 1;" and deleted
C8_Witness ==
    /\ SameRowDelete
    /\ last.before.rows = Document(<< <<"l","e","t"," ","x"," ","="," ","1",";">> >>)
    /\ last.before.selection = Some(Selection(Position(4, 0), Position(5, 0)))
    /\ rows[1].string = <<"l","e","t"," "," ","="," ","1",";">>
    /\ cursor_position = Position(4, 0)

\* The last operation deleted a selection whose endpoints lay on different
\* rows
CrossRowDelete ==
    /\ last.name = "delete_selection"
    /\ Unwrap(last.before.selection).start.y # Unwrap(last.before.selection).end.y

\* C26: deleting a selection whose endpoints s and e, in order, lie on
\* different rows leaves in row s.y the graphemes of old row s.y in front
\* of s.x followed by those of old row e.y from e.x on, removes the rows
\* s.y+1 .. e.y, leaves every other row as it was and in order, and puts
\* the cursor at s.
C26_CrossRowDeleteMerges ==
    CrossRowDelete =>
        LET old == Unwrap(last.before.selection)
            fwd == old.start.y < old.end.y
            s == IF fwd THEN old.start ELSE old.end
            e == IF fwd THEN old.end ELSE old.start
            before == last.before.rows
            gone == e.y - s.y
        IN  /\ fault = "none"
            /\ e.y < Len(before)
            /\ Len(rows) = Len(before) - gone
            /\ rows[s.y + 1].string =
                   LET first == graphemes(before[s.y + 1].string)
                       lastg == graphemes(before[e.y + 1].string)
                   IN  GraphemeRange(first, 0, s.x)
                           \o GraphemeRange(lastg, e.x, Len(lastg))
            /\ \A i \in 1..s.y : rows[i] = before[i]
            /\ \A i \in (s.y + 2)..Len(rows) : rows[i] = before[i + gone]
            /\ cursor_position = s

\* C27: after Delete or Backspace pressed while a selection is active the
\* selection is cleared, also when its start equals its end.
C27_DeleteClearsSelection ==
    last.name = "delete_selection" => selection = None

\* C33: in every reachable editor state every row's derived fields agree
\* with its text: len is the number of graphemes of the string and
\* display_len is the sum of the display widths of its graphemes.
C33_DerivedFieldsAgree ==
    fault = "none" =>
        \A i \in 1..Len(rows) :
            /\ rows[i].len = Len(graphemes(rows[i].string))
            /\ rows[i].display_len = width(rows[i].string)

\* C37: every selection reachable through Shift+arrow keys, Shift+Down
\* onto the line after the last row included, has endpoints that are
\* positions of the document, so that delete_selection and copy_selection
\* never index a row or a range of characters out of bounds: they do not
\* panic.
C37_SelectionOpsDoNotPanic ==
    last.name \in {"delete_selection", "copy_selection"} => fault # "panic"

\* ------------------------------------------------------ Lock specification
\* The threads of the editor: the editing thread, the highlighting thread
\* that update_syntax_async spawns, and the save thread of Editor::new.
Threads == {"main", "syntax", "save"}

\* The read sections of the editing thread: drawing the screen, save, the
\* scan of a search, move_cursor
ReadKinds == {"render", "save", "search", "move_cursor"}

\* The write sections of the editing thread
WriteKinds ==
    {"insert_char", "delete_char", "insert_newline", "delete_selection",
     "replace_current_match"}

\* The filename the save thread captured when Editor::new spawned it
SaveThreadFilename == None

\* A variant of can_read that lets a reader in beside a writer
can_read_beside_writer(l) == TRUE

\* RwLock::read returns when no writer holds the lock
can_read(l) == l.writer = "none"

\* RwLock::write returns when nobody holds the lock
can_write(l) == l.writer = "none" /\ l.readers = {}

\* A variant of join_returns that does not wait for the thread
join_returns_at_once(s) == TRUE

\* syntax_thread.take() is None, or JoinHandle::join returns: the thread
\* spawned before has ended
join_returns(s) == s \in {"none", "done"}

LockInit ==
    /\ LockIdle
    /\ AppIdle
    /\ RowIdle
    /\ SelIdle
    /\ EdIdle

Main(at, kind) == [at |-> at, kind |-> kind]

\* The editing thread calls rows.read()
MainRequestRead(kind) ==
    /\ pc.main.at = "idle"
    /\ kind = "save" => signals < MaxSignals
    /\ pc' = [pc EXCEPT !.main = Main("wait_read", kind)]
    /\ UNCHANGED <<lock, signals, running, rowVars, selVars, edVars, appVars>>

\* rows.read() returns the guard
MainAcquireRead ==
    /\ pc.main.at = "wait_read"
    /\ can_read(lock)
    /\ lock' = [lock EXCEPT !.readers = @ \cup {"main"}]
    /\ pc' = [pc EXCEPT !.main.at = "read"]
    /\ UNCHANGED <<signals, running, rowVars, selVars, edVars, appVars>>

\* Editor::save sends the save signal while it holds the read guard
MainSaveSignal ==
    /\ pc.main = Main("read", "save")
    /\ signals' = signals + 1
    /\ pc' = [pc EXCEPT !.main.kind = "save_sent"]
    /\ UNCHANGED <<lock, running, rowVars, selVars, edVars, appVars>>

\* The read guard is dropped
MainReleaseRead ==
    /\ pc.main.at = "read"
    /\ pc.main.kind # "save"
    /\ lock' = [lock EXCEPT !.readers = @ \ {"main"}]
    /\ pc' = [pc EXCEPT !.main = Main("idle", "")]
    /\ UNCHANGED <<signals, running, rowVars, selVars, edVars, appVars>>

\* The editing thread calls rows.write()
MainRequestWrite(kind) ==
    /\ pc.main.at = "idle"
    /\ pc' = [pc EXCEPT !.main = Main("wait_write", kind)]
    /\ UNCHANGED <<lock, signals, running, rowVars, selVars, edVars, appVars>>

\* rows.write() returns the guard
MainAcquireWrite ==
    /\ pc.main.at = "wait_write"
    /\ can_write(lock)
    /\ lock' = [lock EXCEPT !.writer = "main"]
    /\ pc' = [pc EXCEPT !.main.at = "write"]
    /\ UNCHANGED <<signals, running, rowVars, selVars, edVars, appVars>>

\* A variant of MainReleaseWrite in which insert_char and delete_char go on
\* to update_syntax_async with the write guard still alive
MainKeepsGuardToJoin ==
    /\ pc.main.at = "write"
    /\ IF pc.main.kind \in {"insert_char", "delete_char"}
       THEN /\ pc' = [pc EXCEPT !.main = Main("join", pc.main.kind)]
            /\ UNCHANGED lock
       ELSE /\ pc' = [pc EXCEPT !.main = Main("idle", "")]
            /\ lock' = [lock EXCEPT !.writer = "none"]
    /\ UNCHANGED <<signals, running, rowVars, selVars, edVars, appVars>>

\* The write guard is dropped; insert_char and delete_char go on to
\* update_syntax_async
MainReleaseWrite ==
    /\ pc.main.at = "write"
    /\ lock' = [lock EXCEPT !.writer = "none"]
    /\ pc' = [pc EXCEPT !.main =
                  IF pc.main.kind \in {"insert_char", "delete_char"}
                  THEN Main("join", pc.main.kind)
                  ELSE Main("idle", "")]
    /\ UNCHANGED <<signals, running, rowVars, selVars, edVars, appVars>>

\* update_syntax_async: join returns once the thread spawned before has
\* ended (or there was none), and the next thread is spawned
MainJoinAndSpawn ==
    /\ pc.main.at = "join"
    /\ join_returns(pc.syntax)
    /\ pc' = [pc EXCEPT !.main = Main("idle", ""), !.syntax = "spawned"]
    /\ running' = running + 1
    /\ UNCHANGED <<lock, signals, rowVars, selVars, edVars, appVars>>

\* The highlighting thread gets the write guard
SyntaxAcquireWrite ==
    /\ pc.syntax = "spawned"
    /\ can_write(lock)
    /\ lock' = [lock EXCEPT !.writer = "syntax"]
    /\ pc' = [pc EXCEPT !.syntax = "write"]
    /\ UNCHANGED <<signals, running, rowVars, selVars, edVars, appVars>>

\* The highlighting thread has updated every row and ends
SyntaxReleaseWrite ==
    /\ pc.syntax = "write"
    /\ lock' = [lock EXCEPT !.writer = "none"]
    /\ pc' = [pc EXCEPT !.syntax = "done"]
    /\ running' = running - 1
    /\ UNCHANGED <<signals, rowVars, selVars, edVars, appVars>>

\* The save thread receives a signal.  Its filename is None, so it goes
\* back to recv without touching the rows.
SaveRecv ==
    /\ pc.save = "recv"
    /\ signals > 0
    /\ signals' = signals - 1
    /\ pc' = [pc EXCEPT !.save = IF IsSome(SaveThreadFilename) THEN "wait_read" ELSE "recv"]
    /\ UNCHANGED <<lock, running, rowVars, selVars, edVars, appVars>>

LockNext ==
    \/ \E kind \in ReadKinds : MainRequestRead(kind)
    \/ MainAcquireRead
    \/ MainSaveSignal
    \/ MainReleaseRead
    \/ \E kind \in WriteKinds : MainRequestWrite(kind)
    \/ MainAcquireWrite
    \/ MainReleaseWrite
    \/ MainJoinAndSpawn
    \/ SyntaxAcquireWrite
    \/ SyntaxReleaseWrite
    \/ SaveRecv

SpecLock == LockInit /\ [][LockNext]_vars

\* Thread t is between rows.write() and the drop of its guard
InWriteSection(t) ==
    \/ t = "main" /\ pc.main.at = "write"
    \/ t = "syntax" /\ pc.syntax = "write"

\* Thread t is between rows.read() and the drop of its guard
InReadSection(t) ==
    \/ t = "main" /\ pc.main.at = "read"
    \/ t = "save" /\ pc.save = "read"

\* C10: while a thread is in a write section no other thread is in a read
\* section or in a write section.
C10_WriterExcludesAll ==
    \A t \in Threads :
        InWriteSection(t) =>
            \A u \in Threads \ {t} : ~InReadSection(u) /\ ~InWriteSection(u)

\* The highlighting thread writes while the editing thread, a save signal
\* still in the channel, waits for the lock to draw the screen
C10_Witness ==
    /\ InWriteSection("syntax")
    /\ pc.main = Main("wait_read", "render")
    /\ signals > 0

\* C11: at most one highlighting thread is running: update_syntax_async
\* spawns a thread only after the one spawned before has ended.
C11_OneRefreshTask == running <= 1

\* The editing thread waits in join for the highlighting thread, which
\* holds the write lock
C11_Witness ==
    /\ pc.main.at = "join"
    /\ pc.syntax = "write"
    /\ running = 1

\* C13: every save signal that the save thread receives makes it take the
\* read lock and write the rows to the file named when it was spawned.
C13_SaveTaskWritesOnSignal ==
    [][signals' < signals => pc'.save \in {"wait_read", "read"}]_vars

\* The highlighting thread and the join of the editing thread are
\* scheduled fairly: a thread that could take the lock for ever takes it, a
\* thread that holds it ends, a join that could return returns.
SpecLockFair ==
    /\ SpecLock
    /\ WF_vars(SyntaxAcquireWrite)
    /\ WF_vars(SyntaxReleaseWrite)
    /\ WF_vars(MainJoinAndSpawn)

\* C39: when the editing thread joins the previous highlighting thread in
\* update_syntax_async it holds neither a read nor a write guard on the
\* document, so the highlighting thread gets its write guard and the join
\* returns: the editing thread, the highlighting thread and the save
\* thread never deadlock.
C39_JoinHoldsNoLock ==
    /\ [](pc.main.at = "join" => (lock.writer # "main" /\ "main" \notin lock.readers))
    /\ (pc.main.at = "join") ~> (pc.main.at = "idle")

\* The editing thread is at the join while the thread spawned before still
\* waits for the write guard
C39_Witness ==
    /\ pc.main.at = "join"
    /\ pc.syntax = "spawned"
    /\ lock.writer = "none"

\* ---------------------------------------------------- Render specification
\* run_loop with the highlighting thread beside it: the editing thread
\* alternates refresh_screen and process_keypress, and the thread that an
\* edit spawned runs at any moment after it.  Every access to the rows is
\* made under the lock, so each section is one step.
RenderDocs == {<<>>, << <<"a">> >>}

RenderInit ==
    /\ \E lines \in RenderDocs :
           EdInit(EdNew(Document(lines), [rows |-> 22, cols |-> 80]))
    /\ prompt = NoPrompt
    /\ last = NoLast
    /\ edits = 0
    /\ lock = [writer |-> "none", readers |-> {}]
    /\ pc = [main |-> Main("refresh_screen", ""), syntax |-> "none", save |-> "recv"]
    /\ signals = 0
    /\ running = 0
    /\ AppIdle
    /\ RowIdle
    /\ SelIdle

\* refresh_screen: scroll, then draw_rows reads the rows under the read
\* lock; run_loop then leaves its loop if should_quit is set
DrawRows ==
    /\ pc.main.at = "refresh_screen" /\ fault = "none"
    /\ SetEd(refresh_screen(Ed))
    /\ last' = Last("draw_rows", Key(""), <<>>, Ed)
    /\ pc' = [pc EXCEPT !.main = IF should_quit THEN Main("quit", "")
                                 ELSE Main("process_keypress", "")]
    /\ UNCHANGED <<prompt, edits, lock, signals, running, rowVars, selVars, appVars>>

\* process_keypress: event::poll times out, no key was pressed
PollTimeout ==
    /\ pc.main.at = "process_keypress" /\ fault = "none"
    /\ pc' = [pc EXCEPT !.main = Main("refresh_screen", "")]
    /\ UNCHANGED <<edVars, lock, signals, running, rowVars, selVars, appVars>>

\* process_keypress: a character key without modifiers, in a row that is
\* not yet MaxLen characters long
RenderTypeChar(c) ==
    /\ pc.main.at = "process_keypress" /\ fault = "none"
    /\ cursor_position.y < Len(rows)
           => Len(rows[cursor_position.y + 1].string) < MaxLen
    /\ SetEd(insert_char(clear_selection(Ed), c))
    /\ pc' = [pc EXCEPT !.main = Main("refresh_screen", "")]
    /\ quit_times' = QUIT_TIMES
    /\ quit_presses' = 0
    /\ UNCHANGED <<prompt, last, edits, lock, signals, running, rowVars, selVars,
                   filename, should_quit, sys_clipboard, clipboard>>

\* process_keypress: Backspace without a selection
RenderBackspace ==
    /\ pc.main.at = "process_keypress" /\ fault = "none"
    /\ ~IsSome(selection)
    /\ SetEd(delete_char(Ed))
    /\ pc' = [pc EXCEPT !.main = Main("refresh_screen", "")]
    /\ quit_times' = QUIT_TIMES
    /\ quit_presses' = 0
    /\ UNCHANGED <<prompt, last, edits, lock, signals, running, rowVars, selVars,
                   filename, should_quit, sys_clipboard, clipboard>>

\* The highlighting thread takes the write lock and runs
RenderSyntaxThread ==
    /\ syntax_thread = "running" /\ fault = "none"
    /\ SetEd(syntax_thread_body(Ed))
    /\ UNCHANGED <<prompt, last, edits, lockVars, rowVars, selVars, appVars>>

RenderNext ==
    \/ DrawRows
    \/ PollTimeout
    \/ \E c \in EditChars : RenderTypeChar(c)
    \/ RenderBackspace
    \/ RenderSyntaxThread

SpecRender == RenderInit /\ [][RenderNext]_vars

\* C12: the rows that draw_rows reads have as many highlighting tags as
\* graphemes, whatever the order of an edit, the thread it spawns and the
\* next refresh_screen.
C12_RenderSeesTagPerGrapheme ==
    last.name = "draw_rows" =>
        \A i \in 1..Len(last.before.rows) :
            Len(last.before.rows[i].highlighting)
                = Len(graphemes(last.before.rows[i].string))

\* ------------------------------------------------------ File specification
\* main opens the file named on the command line, if any, and runs the
\* loop; Ctrl-S saves.  The file system answers each read and each write
\* with success or with an error.
FileNames == {<<"f">>}

\* The lines of the file that open reads
FileContents == {<<>>, << <<"a">> >>}

FileInit ==
    /\ EdInit(EdNew(<<>>, [rows |-> 22, cols |-> 80]))
    /\ prompt = NoPrompt
    /\ last = NoLast
    /\ edits = 0
    /\ lock = [writer |-> "none", readers |-> {}]
    /\ pc = [main |-> Main("main", ""), syntax |-> "none", save |-> "recv"]
    /\ signals = 0
    /\ running = 0
    /\ AppIdle
    /\ RowIdle
    /\ SelIdle

\* main without an argument: editor.run()
MainRun ==
    /\ pc.main.at = "main"
    /\ pc' = [pc EXCEPT !.main = Main("refresh_screen", "")]
    /\ UNCHANGED <<edVars, lock, signals, running, rowVars, selVars, appVars>>

\* main with an argument: editor.open(&filename)?, then editor.run().  When
\* read_to_string fails (ok is FALSE) open returns the error and so does
\* main: the process ends.
MainOpen(name, lines, ok) ==
    /\ pc.main.at = "main"
    /\ filename' = Some(name)
    /\ IF ok
       THEN /\ SetEd([Ed EXCEPT !.rows = Document(lines), !.dirty = FALSE])
            /\ last' = Last("open", Key(""), name, Ed)
            /\ pc' = [pc EXCEPT !.main = Main("refresh_screen", "")]
       ELSE /\ SetEd([Ed EXCEPT !.fault = "exit"])
            /\ last' = Last("open_failed", Key(""), name, Ed)
            /\ pc' = [pc EXCEPT !.main = Main("exit", "")]
    /\ UNCHANGED <<prompt, edits, lock, signals, running, rowVars, selVars,
                   should_quit, quit_times, sys_clipboard, clipboard, quit_presses>>

\* Ctrl-S, Editor::save.  Without a file name the prompt "Save as: " returns
\* typed (empty after Esc or Enter on nothing).  When fs::write fails (ok is
\* FALSE) save returns the error, process_keypress returns it and run_loop
\* calls die, which exits the process.
CtrlS(typed, ok) ==
    /\ pc.main.at = "process_keypress" /\ fault = "none"
    /\ signals < MaxSignals
    /\ IsSome(filename) => typed = <<>>
    /\ LET name == IF IsSome(filename) THEN filename
                    ELSE IF typed = <<>> THEN None ELSE Some(typed)
       IN  IF name = None
           THEN /\ SetEd([Ed EXCEPT !.status_message = StatusFrom("Save aborted.", -1)])
                /\ last' = Last("save_aborted", Key("Ctrl-S"), typed, Ed)
                /\ quit_times' = QUIT_TIMES
                /\ quit_presses' = 0
                /\ pc' = [pc EXCEPT !.main = Main("refresh_screen", "")]
                /\ UNCHANGED <<filename, signals>>
           ELSE IF ~ok
           THEN /\ SetEd([Ed EXCEPT !.fault = "exit"])
                /\ last' = Last("save_failed", Key("Ctrl-S"), typed, Ed)
                /\ filename' = name
                /\ pc' = [pc EXCEPT !.main = Main("exit", "")]
                /\ UNCHANGED <<quit_times, quit_presses, signals>>
           ELSE /\ SetEd([Ed EXCEPT !.dirty = FALSE,
                                    !.status_message = StatusFrom("written", Len(rows))])
                /\ last' = Last("save", Key("Ctrl-S"), typed, Ed)
                /\ filename' = name
                /\ signals' = signals + 1
                /\ quit_times' = QUIT_TIMES
                /\ quit_presses' = 0
                /\ pc' = [pc EXCEPT !.main = Main("refresh_screen", "")]
    /\ UNCHANGED <<prompt, edits, lock, running, rowVars, selVars,
                   should_quit, sys_clipboard, clipboard>>

FileNext ==
    \/ MainRun
    \/ \E name \in FileNames, lines \in FileContents, ok \in BOOLEAN :
           MainOpen(name, lines, ok)
    \/ DrawRows
    \/ PollTimeout
    \/ \E c \in EditChars : RenderTypeChar(c)
    \/ RenderBackspace
    \/ RenderSyntaxThread
    \/ \E typed \in FileNames \cup {<<>>}, ok \in BOOLEAN : CtrlS(typed, ok)
    \/ SaveRecv

SpecFile == FileInit /\ [][FileNext]_vars

\* C14: after open or save failed, the failure is in the status message,
\* the editor still runs and the rows are what they were.
C14_FileFailureRecoverable ==
    last.name \in {"open_failed", "save_failed"} =>
        /\ fault = "none"
        /\ status_message # last.before.status_message
        /\ rows = last.before.rows

\* ------------------------------------------------------ Quit specification
\* A variant of quit_guard that warns one time less
quit_guard_one_less(d, q) == d /\ q > 1

\* The test of the Ctrl-Q arm: warn instead of quitting
quit_guard(d, q) == d /\ q > 0

\* Ctrl-Q.  With unsaved changes and confirmations left it warns, counts
\* down and returns before quit_times is reset; otherwise it sets
\* should_quit and falls through to the reset.
CtrlQ ==
    /\ pc.main.at = "process_keypress" /\ fault = "none"
    /\ IF quit_guard(dirty, quit_times)
       THEN /\ SetEd([Ed EXCEPT !.status_message = StatusError("WARNING")])
            /\ quit_times' = quit_times - 1
            /\ UNCHANGED should_quit
       ELSE /\ SetEd(Ed)
            /\ should_quit' = TRUE
            /\ quit_times' = QUIT_TIMES
    /\ quit_presses' = quit_presses + 1
    /\ pc' = [pc EXCEPT !.main = Main("refresh_screen", "")]
    /\ UNCHANGED <<prompt, last, edits, lock, signals, running, rowVars, selVars,
                   filename, sys_clipboard, clipboard>>

\* A key press that no arm of process_keypress handles, such as Tab
IgnoredKey ==
    /\ pc.main.at = "process_keypress" /\ fault = "none"
    /\ quit_times' = QUIT_TIMES
    /\ quit_presses' = 0
    /\ pc' = [pc EXCEPT !.main = Main("refresh_screen", "")]
    /\ UNCHANGED <<edVars, lock, signals, running, rowVars, selVars,
                   filename, should_quit, sys_clipboard, clipboard>>

QuitInit ==
    /\ \E lines \in RenderDocs :
           EdInit(EdNew(Document(lines), [rows |-> 22, cols |-> 80]))
    /\ prompt = NoPrompt
    /\ last = NoLast
    /\ edits = 0
    /\ lock = [writer |-> "none", readers |-> {}]
    /\ pc = [main |-> Main("refresh_screen", ""), syntax |-> "none", save |-> "recv"]
    /\ signals = 0
    /\ running = 0
    /\ AppIdle
    /\ RowIdle
    /\ SelIdle

QuitNext ==
    \/ DrawRows
    \/ PollTimeout
    \/ \E c \in EditChars : RenderTypeChar(c)
    \/ RenderBackspace
    \/ RenderSyntaxThread
    \/ IgnoredKey
    \/ CtrlQ

SpecQuit == QuitInit /\ [][QuitNext]_vars

\* C16: with unsaved changes, quit_times is QUIT_TIMES less the Ctrl-Q
\* presses made since the last other key press, and should_quit is set by
\* press number QUIT_TIMES + 1 of such a run and by no earlier one.
C16_QuitAfterConfirmations ==
    /\ (dirty /\ ~should_quit) => quit_times = QUIT_TIMES - quit_presses
    /\ (dirty /\ should_quit) => quit_presses = QUIT_TIMES + 1

\* Four presses of Ctrl-Q in a row on a changed document: the editor quits
C16_Witness ==
    /\ dirty
    /\ should_quit
    /\ quit_presses = QUIT_TIMES + 1
    /\ status_message = StatusError("WARNING")

\* ------------------------------------------------- Clipboard specification
\* Selecting with Shift and the arrow keys, copying, pasting and replace
\* sessions on one row, with and without a clipboard provider.
ClipDocs == {<< <<"a","b">> >>}

\* The text typed into the prompt "Search (for replace): "
ClipQueries == {<<"a","b">>}

\* The text the system clipboard holds at the start
ClipTexts == {<<"a","\n">>}

ClipInit ==
    /\ \E lines \in ClipDocs :
           EdInit(EdNew(Document(lines), [rows |-> 22, cols |-> 80]))
    /\ prompt = NoPrompt
    /\ last = NoLast
    /\ edits = 0
    /\ RowIdle
    /\ SelIdle
    /\ LockIdle
    /\ filename = None
    /\ should_quit = FALSE
    /\ quit_times = QUIT_TIMES
    /\ quit_presses = 0
    /\ sys_clipboard \in {None, Some("ctx")}
    /\ clipboard \in ClipTexts

\* Ctrl-C with a selection
CtrlC(set_ok) ==
    /\ prompt.kind = "none" /\ fault = "none"
    /\ IsSome(selection)
    /\ LET r == copy_selection(Ed, sys_clipboard, clipboard, set_ok)
       IN  /\ SetEd(run_loop(r.e))
           /\ clipboard' = r.clipboard
    /\ last' = Did("copy_selection")
    /\ UNCHANGED <<prompt, edits, rowVars, selVars, lockVars, filename, should_quit,
                   quit_times, quit_presses, sys_clipboard>>

\* Ctrl-V.  A paste that gets the text counts as an edit.
CtrlV(get_ok) ==
    /\ prompt.kind = "none" /\ fault = "none"
    /\ (IsSome(sys_clipboard) /\ get_ok) => edits < MaxEdits
    /\ SetEd(run_loop(paste(Ed, sys_clipboard, clipboard, get_ok)))
    /\ edits' = IF IsSome(sys_clipboard) /\ get_ok THEN edits + 1 ELSE edits
    /\ last' = Did("paste")
    /\ UNCHANGED <<prompt, rowVars, selVars, lockVars, appVars>>

\* Ctrl-H as in CtrlH.  A replace session counts as an edit.
ClipCtrlH ==
    /\ prompt.kind = "none" /\ fault = "none"
    /\ edits < MaxEdits
    /\ SetEd([Ed EXCEPT !.is_searching = TRUE])
    /\ prompt' = PromptStart("replace")
    /\ last' = Last("replace", Key("Ctrl-H"), <<>>, Ed)
    /\ edits' = edits + 1
    /\ UNCHANGED <<rowVars, selVars, lockVars, appVars>>

ClipReplaceKeys == {Key("Enter"), Key("Esc"), CharKey("a"), CharKey("b")}

ClipNext ==
    \/ \E shift \in BOOLEAN : ArrowKey("Right", shift)
    \/ \E set_ok \in BOOLEAN : CtrlC(set_ok)
    \/ \E get_ok \in BOOLEAN : CtrlV(get_ok)
    \/ ClipCtrlH
    \/ PromptLoopTop
    \/ \E key \in ClipReplaceKeys :
           EnterOnWhole(key, ClipQueries) /\ ReplaceKey(key, ClipQueries)
    \/ \E key \in {Key("Enter"), Key("Esc")} : ReplaceWithKey(key, {<<>>})

SpecClip == ClipInit /\ [][ClipNext]_vars

\* A copy that cannot use the clipboard: there is no provider, or
\* set_contents fails
CopyFails == CtrlC(FALSE) \/ (~IsSome(sys_clipboard) /\ CtrlC(TRUE))

\* A paste that cannot use the clipboard: there is no provider, or
\* get_contents fails
PasteFails == CtrlV(FALSE) \/ (~IsSome(sys_clipboard) /\ CtrlV(TRUE))

\* C15: a copy or a paste that cannot use the clipboard does not end the
\* editor and leaves the rows and dirty as they were; such a paste also
\* leaves the selection and the cursor.
C15_ClipboardFailureHarmless ==
    [][/\ (CopyFails \/ PasteFails) =>
              fault' = "none" /\ rows' = rows /\ dirty' = dirty
       /\ PasteFails =>
              selection' = selection /\ cursor_position' = cursor_position]_vars


\* ------------------------------------------------ Row search specification
\* Characters of the searched rows and of the queries: two letters and a
\* three-byte ideograph.
SearchAlphabet == {"a", "b", "U+4E16"}

RowSearchInit ==
    /\ row \in {Row_new(s) : s \in Strings(SearchAlphabet, MaxLen)}
    /\ splitted = Row_new(<<>>)
    /\ op = NoOp
    /\ pair = NoPair
    /\ SelIdle
    /\ LockIdle
    /\ AppIdle
    /\ EdIdle

\* row.search(query, at); the result is kept in op.found (-1 for None)
RowSearch(query, at) ==
    /\ op' = [name |-> "search", at |-> at, c |-> "", query |-> query,
              found |-> Row_search(row, query, at)]
    /\ UNCHANGED <<row, splitted, pair, selVars, edVars, lockVars, appVars>>

RowSearchNext ==
    \E query \in Strings(SearchAlphabet, MaxLen) \ {<<>>}, at \in Indices :
        RowSearch(query, at)

SpecRowSearch == RowSearchInit /\ [][RowSearchNext]_vars

\* C17: Row.search(query, from) returns the grapheme index of the first
\* occurrence of query starting at or after grapheme index from, and None
\* (-1) when there is none.
C17_SearchReturnsGraphemeIndex ==
    op.name = "search" =>
        LET gs == graphemes(row.string)
            hits == {k \in op.at..(Len(gs) - 1) :
                        LET rest == GraphemeRange(gs, k, Len(gs))
                        IN  /\ Len(rest) >= Len(op.query)
                            /\ SubSeq(rest, 1, Len(op.query)) = op.query}
        IN  op.found = IF hits = {} THEN -1
                       ELSE CHOOSE k \in hits : \A j \in hits : k <= j


\* ------------------------------------------------- Highlight specification
\* Characters of the highlighted rows: the two quotes, the characters of the
\* comment marks, a digit, the letters of "if", "fn" and "in", an underscore
\* and a space.
HighlightAlphabet == {"'", "\"", "/", "*", "1", "i", "f", "n", "_", " "}

HighlightInit ==
    /\ row \in {Row_new(s) : s \in Strings(HighlightAlphabet, MaxLen + 1)}
    /\ splitted = Row_new(<<>>)
    /\ op = NoOp
    /\ pair = NoPair
    /\ SelIdle
    /\ LockIdle
    /\ AppIdle
    /\ EdIdle

\* row.update_syntax()
RowUpdateSyntax ==
    /\ row' = [row EXCEPT !.highlighting = update_syntax(row.string)]
    /\ op' = [name |-> "update_syntax", at |-> 0, c |-> ""]
    /\ UNCHANGED <<splitted, pair, selVars, edVars, lockVars, appVars>>

HighlightNext == RowUpdateSyntax

SpecHighlight == HighlightInit /\ [][HighlightNext]_vars

\* C20: the tags update_syntax computes for a row text are the output of
\* the state machine of rules 1-9, applied in this order at each character:
\* in a comment, "/*", a double quote, in a string, a char literal up to
\* its closing quote or the end of the line, one digit, "//", a whole-word
\* keyword, Normal.
C20_TagsFollowStateMachine ==
    op.name = "update_syntax" =>
        LET chars == row.string
            n == Len(chars)
            At(k) == IF k < n THEN chars[k + 1] ELSE ""
            WordEnd(k) ==
                LET stops == {m \in k..(n - 1) : ~IsWordChar(chars[m + 1])}
                IN  IF stops = {} THEN n
                    ELSE CHOOSE m \in stops : \A j \in stops : m <= j
            Word(k) ==
                IF (k > 0 /\ IsWordChar(chars[k])) \/ ~IsWordChar(At(k))
                THEN <<>>
                ELSE SubSeq(chars, k + 1, WordEnd(k))
            QuoteEnd(k) ==
                LET closes == {m \in (k + 1)..(n - 1) : chars[m + 1] = "'"}
                IN  IF closes = {} THEN n - 1
                    ELSE CHOOSE m \in closes : \A j \in closes : m <= j
            RECURSIVE Machine(_, _, _)
            Machine(k, in_string, in_comment) ==
                IF k >= n THEN <<>>
                ELSE IF in_comment
                THEN IF At(k) = "*" /\ At(k + 1) = "/"
                     THEN <<"Comment", "Comment">> \o Machine(k + 2, in_string, FALSE)
                     ELSE <<"Comment">> \o Machine(k + 1, in_string, TRUE)
                ELSE IF At(k) = "/" /\ At(k + 1) = "*"
                THEN <<"Comment", "Comment">> \o Machine(k + 2, in_string, TRUE)
                ELSE IF At(k) = "\""
                THEN <<"String">> \o Machine(k + 1, ~in_string, FALSE)
                ELSE IF in_string
                THEN <<"String">> \o Machine(k + 1, TRUE, FALSE)
                ELSE IF At(k) = "'"
                THEN [m \in 1..(QuoteEnd(k) - k + 1) |-> "CharLiteral"]
                         \o Machine(QuoteEnd(k) + 1, FALSE, FALSE)
                ELSE IF is_digit(At(k))
                THEN <<"Number">> \o Machine(k + 1, FALSE, FALSE)
                ELSE IF At(k) = "/" /\ At(k + 1) = "/"
                THEN [m \in 1..(n - k) |-> "Comment"]
                ELSE IF Word(k) \in PrimaryKeywordList
                THEN [m \in 1..Len(Word(k)) |-> "PrimaryKeywords"]
                         \o Machine(k + Len(Word(k)), FALSE, FALSE)
                ELSE IF Word(k) \in SecondaryKeywordList
                THEN [m \in 1..Len(Word(k)) |-> "SecondaryKeywords"]
                         \o Machine(k + Len(Word(k)), FALSE, FALSE)
                ELSE <<"Normal">> \o Machine(k + 1, FALSE, FALSE)
        IN  row.highlighting = Machine(0, FALSE, FALSE)

\* C31: update_syntax emits exactly one highlight tag per character of the
\* row; a char literal without closing quote ends at the end of the line,
\* and a comment has as many Comment tags as characters it covers.
C31_OneTagPerCharacter ==
    op.name = "update_syntax" => Len(row.highlighting) = Len(row.string)

\* C32: outside strings, comments and char literals a keyword is tagged,
\* each of its characters PrimaryKeywords or SecondaryKeywords, exactly
\* when it stands as a whole word: the characters in front of it and
\* behind it are not alphanumeric and not an underscore.  Keyword text
\* inside a longer identifier is never tagged as a keyword.
C32_KeywordsAreWholeWords ==
    op.name = "update_syntax" =>
        LET chars == row.string
            n == Len(chars)
            tags == row.highlighting
            Plain == \A k \in 1..n : chars[k] \notin {"'", "\"", "/", "*"}
            \* kw stands at 1-based index k as a whole word
            WholeAt(kw, k) ==
                /\ k + Len(kw) - 1 <= n
                /\ SubSeq(chars, k, k + Len(kw) - 1) = kw
                /\ k > 1 => ~IsWordChar(chars[k - 1])
                /\ k + Len(kw) <= n => ~IsWordChar(chars[k + Len(kw)])
            Covered(list, p) ==
                \E kw \in list : \E k \in 1..p :
                    WholeAt(kw, k) /\ p <= k + Len(kw) - 1
        IN  /\ \A p \in 1..n :
                  /\ (p <= Len(tags) /\ tags[p] = "PrimaryKeywords")
                         => Covered(PrimaryKeywordList, p)
                  /\ (p <= Len(tags) /\ tags[p] = "SecondaryKeywords")
                         => Covered(SecondaryKeywordList, p)
            /\ Plain =>
                  \A p \in 1..n :
                      /\ Covered(PrimaryKeywordList, p) => tags[p] = "PrimaryKeywords"
                      /\ Covered(SecondaryKeywordList, p) => tags[p] = "SecondaryKeywords"

\* The keyword "if" tagged in front of an underscore-free boundary, and
\* the text "nif", where it is part of a longer word
C32_Witness ==
    /\ op.name = "update_syntax"
    /\ row.string = <<"i", "f", " ">>
    /\ row.highlighting = <<"PrimaryKeywords", "PrimaryKeywords", "Normal">>


\* ------------------------------------------------ Row insert specification
\* Characters inserted: a letter, a combining accent and a wide ideograph.
InsertAlphabet == {"a", "U+0301", "U+4E16"}

RowInsertInit ==
    /\ row \in {Row_new(s) : s \in Strings(InsertAlphabet, 1)}
    /\ splitted = Row_new(<<>>)
    /\ op = NoOp
    /\ pair = NoPair
    /\ SelIdle
    /\ LockIdle
    /\ AppIdle
    /\ EdIdle

\* row.insert(at, c), up to a text of MaxLen + 1 characters
InsertInto(at, c) ==
    /\ Len(row.string) <= MaxLen
    /\ row' = insert(row, at, c)
    /\ op' = [name |-> "insert", at |-> at, c |-> c]
    /\ UNCHANGED <<splitted, pair, selVars, edVars, lockVars, appVars>>

RowInsertNext == \E at \in Indices, c \in InsertAlphabet : InsertInto(at, c)

SpecRowInsert == RowInsertInit /\ [][RowInsertNext]_vars

\* C23: Row.insert(at, c) puts c in front of the grapheme with index at
\* when at < len and at the end of the text when at >= len; len grows by
\* exactly 1 and display_len by the width of c.
C23_InsertPlacesChar ==
    [][\A at \in Indices, c \in InsertAlphabet :
          InsertInto(at, c) =>
              LET gs == graphemes(row.string)
              IN  /\ row'.string =
                         IF at < row.len
                         THEN GraphemeRange(gs, 0, at) \o <<c>>
                                  \o GraphemeRange(gs, at, Len(gs))
                         ELSE Append(row.string, c)
                  /\ row'.len = row.len + 1
                  /\ row'.display_len = row.display_len + CharWidth(c)]_vars


\* ------------------------------------------- Selection keys specification
\* The keys that move the cursor
MoveCodes == ArrowCodes \cup {"PageUp", "PageDown", "Home", "End"}

\* Esc outside a prompt: no arm of process_keypress handles it
EscKey ==
    /\ prompt.kind = "none" /\ fault = "none"
    /\ SetEd(run_loop(Ed))
    /\ last' = Did("esc")
    /\ UNCHANGED <<prompt, edits, rowVars, selVars, lockVars, appVars>>

\* The position a mouse event at screen cell (column, row) points at, and
\* whether a row is there
MouseTarget(e, column, r) ==
    LET x == column + e.offset.x
        y == r + e.offset.y
    IN  IF y >= Len(e.rows) THEN [hit |-> FALSE, pos |-> Position(0, 0)]
        ELSE [hit |-> TRUE, pos |-> Position(Min(x, e.rows[y + 1].len), y)]

\* The left mouse button goes down at screen cell (column, r)
MouseDown(column, r) ==
    /\ prompt.kind = "none" /\ fault = "none"
    /\ LET t == MouseTarget(Ed, column, r)
       IN  SetEd(run_loop(IF t.hit
                          THEN clear_selection([Ed EXCEPT !.cursor_position = t.pos])
                          ELSE Ed))
    /\ last' = Did("mouse_down")
    /\ UNCHANGED <<prompt, edits, rowVars, selVars, lockVars, appVars>>

\* The mouse is dragged with the left button down to screen cell (column, r)
MouseDrag(column, r) ==
    /\ prompt.kind = "none" /\ fault = "none"
    /\ LET t == MouseTarget(Ed, column, r)
           e1 == IF IsSome(selection) THEN Ed ELSE start_selection(Ed)
       IN  SetEd(run_loop(IF t.hit
                          THEN update_selection([e1 EXCEPT !.cursor_position = t.pos])
                          ELSE Ed))
    /\ last' = Did("mouse_drag")
    /\ UNCHANGED <<prompt, edits, rowVars, selVars, lockVars, appVars>>

SelectNext ==
    \/ \E code \in MoveCodes : ArrowKey(code, FALSE)
    \/ \E code \in ArrowCodes : ArrowKey(code, TRUE)
    \/ EscKey
    \/ \E column \in Coords, r \in Coords : MouseDown(column, r)
    \/ \E column \in Coords, r \in Coords : MouseDrag(column, r)

SpecSelect == EditInit /\ [][SelectNext]_vars

\* C28: a cursor move without Shift (arrow keys, PageUp, PageDown, Home,
\* End, a left mouse click on a row) and the Esc key clear the selection;
\* an arrow key with Shift and a mouse drag over a row keep the start of
\* the selection and set its end to the new cursor position.
C28_MovesClearOrExtendSelection ==
    [][/\ ((\E code \in MoveCodes : ArrowKey(code, FALSE))
              \/ EscKey
              \/ (\E column \in Coords, r \in Coords :
                      MouseTarget(Ed, column, r).hit /\ MouseDown(column, r)))
          => selection' = None
       /\ ((\E code \in ArrowCodes : ArrowKey(code, TRUE))
              \/ (\E column \in Coords, r \in Coords :
                      MouseTarget(Ed, column, r).hit /\ MouseDrag(column, r)))
          => /\ IsSome(selection')
             /\ Unwrap(selection').end = cursor_position'
             /\ IsSome(selection)
                    => Unwrap(selection').start = Unwrap(selection).start]_vars


\* --------------------------------------------- Highlight refresh specification
\* A document of two rows; the query "le" occurs only in row 1, behind
\* column 0
RefreshDocs == {<< <<"e">>, <<"e","l","e">> >>}

RefreshQueries == {<<"l","e">>}

RefreshKeys ==
    {Key("Enter"), Key("Esc"), Key("Left"), Key("Right")}
        \cup {CharKey(c) : c \in {"l", "e"}}

RefreshInit ==
    /\ \E lines \in RefreshDocs :
           EdInit(EdNew(Document(lines), [rows |-> 22, cols |-> 80]))
    /\ prompt = NoPrompt
    /\ last = NoLast
    /\ edits = 0
    /\ RowIdle
    /\ SelIdle
    /\ LockIdle
    /\ AppIdle

\* Enter outside a prompt: a selection is deleted, then the row is split
EnterKey ==
    /\ prompt.kind = "none" /\ fault = "none"
    /\ edits < MaxEdits
    /\ SetEd(run_loop(insert_newline(IF IsSome(selection) THEN delete_selection(Ed)
                                     ELSE Ed)))
    /\ last' = Did("insert_newline")
    /\ edits' = edits + 1
    /\ UNCHANGED <<prompt, rowVars, selVars, lockVars, appVars>>

RefreshNext ==
    \/ \E code \in {"Delete", "Backspace"} : DeleteKey(code)
    \/ \E c \in EditChars : TypeChar(c)
    \/ EnterKey
    \/ SyntaxThreadRun
    \/ CtrlF
    \/ PromptLoopTop
    \/ \E key \in RefreshKeys : SearchKey(key, RefreshQueries)

SpecRefresh == RefreshInit /\ [][RefreshNext]_vars

\* The spawned thread is scheduled by the operating system and blocks only
\* on the write lock: whenever it could run for ever, it runs.
SpecRefreshFair == SpecRefresh /\ WF_vars(SyntaxThreadRun)

\* Every row's highlighting is what update_syntax gives for its text
HighlightingConsistent ==
    \A i \in 1..Len(rows) : rows[i].highlighting = update_syntax(rows[i].string)

\* C34: highlighting is eventually consistent with the text: whenever no
\* refresh task is running every row's highlighting equals update_syntax
\* of its text, and every spawned refresh task eventually gets the write
\* lock and completes.
C34_HighlightEventuallyConsistent ==
    /\ []((fault = "none" /\ syntax_thread # "running") => HighlightingConsistent)
    /\ (syntax_thread = "running") ~> (syntax_thread # "running")


\* ------------------------------------------------------ Frame specification
\* The keys that do not edit, after a key that does or before it: cursor
\* moves, selection by Shift and arrow keys, copy, save, search in both directions, drawing and
\* the highlighting thread.
FrameDocs == {<< <<"l">> >>}

\* A query that occurs and one that does not
FrameQueries == {<<"l">>, <<"q">>}

FrameKeys ==
    {Key("Enter"), Key("Esc"), Key("Left"), Key("Right")}
        \cup {CharKey(c) : c \in {"l", "q"}}

\* The editor is started either with a file name and without a clipboard
\* provider, or without a file name and with one
FrameInit ==
    /\ \E lines \in FrameDocs :
           EdInit(EdNew(Document(lines), [rows |-> 22, cols |-> 80]))
    /\ prompt = NoPrompt
    /\ last = NoLast
    /\ edits = 0
    /\ RowIdle
    /\ SelIdle
    /\ LockIdle
    /\ \/ filename \in {Some(name) : name \in FileNames} /\ sys_clipboard = None
       \/ filename = None /\ sys_clipboard = Some("ctx")
    /\ should_quit = FALSE
    /\ quit_times = QUIT_TIMES
    /\ quit_presses = 0
    /\ clipboard = <<>>

\* Ctrl-S in a document that has a file name: Editor::save writes the text
\* of the rows and signals the save thread; when fs::write fails (ok is
\* FALSE) the error ends the process.
SaveKey(ok) ==
    /\ prompt.kind = "none" /\ fault = "none"
    /\ IsSome(filename)
    /\ signals < MaxSignals
    /\ IF ok
       THEN /\ SetEd(run_loop([Ed EXCEPT !.dirty = FALSE,
                                         !.status_message = StatusFrom("written", Len(rows))]))
            /\ signals' = signals + 1
            /\ last' = Did("save")
       ELSE /\ SetEd([Ed EXCEPT !.fault = "exit"])
            /\ last' = Did("save_failed")
            /\ UNCHANGED signals
    /\ UNCHANGED <<prompt, edits, rowVars, selVars, lock, pc, running, appVars>>

FrameNext ==
    \/ \E code \in {"Left", "Right"}, shift \in BOOLEAN : ArrowKey(code, shift)
    \/ \E set_ok \in BOOLEAN : CtrlC(set_ok)
    \/ \E ok \in BOOLEAN : SaveKey(ok)
    \/ CtrlF
    \/ PromptLoopTop
    \/ \E key \in FrameKeys : SearchKey(key, FrameQueries)
    \/ SyntaxThreadRun
    \/ TypeChar("a")

SpecFrame == FrameInit /\ [][FrameNext]_vars

\* The text of the rows, in order
TextOf(rws) == [i \in 1..Len(rws) |-> rws[i].string]

\* The operations that edit
EditNames == {"insert_char", "delete_char", "delete_selection", "insert_newline"}

\* C35: the row sequence changes only through the edit operations: a
\* search step (forward or backward, hit or miss), a cursor move, starting,
\* updating or clearing the selection, copy, save, drawing the screen and
\* the highlighting thread leave the number of rows, their order and the
\* text of every row as they were.
C35_OnlyEditsChangeRows ==
    [][last'.name \notin EditNames => TextOf(rows') = TextOf(rows)]_vars

\* A search step has moved the cursor to a match while the highlighting
\* thread of an edit is still to run
C35_Witness ==
    /\ last.name = "find_callback"
    /\ fault = "none"
    /\ IsSome(search_state.last_match)
    /\ cursor_position # last.before.cursor_position
    /\ syntax_thread = "running"


\* The text that was loaded when the editor started
LoadedText == TextOf(Document(CHOOSE lines \in RefreshDocs : TRUE))

\* C38: the dirty flag tracks unsaved changes: whenever the text of the
\* document differs from the text last loaded or saved, dirty is TRUE,
\* whichever operation changed the text (insert char, backspace, Enter,
\* selection delete), so that Ctrl-Q asks for confirmation.
C38_DirtyTracksChanges ==
    (fault = "none" /\ TextOf(rows) # LoadedText) => dirty


\* -------------------------------------------------------- Cut specification
\* Ctrl-X: with a selection, copy_selection and then delete_selection.  A
\* cut of a selection counts as an edit.
CtrlX(set_ok) ==
    /\ prompt.kind = "none" /\ fault = "none"
    /\ IsSome(selection) => edits < MaxEdits
    /\ LET r == copy_selection(Ed, sys_clipboard, clipboard, set_ok)
           e1 == IF ~IsSome(selection) THEN Ed
                 ELSE IF r.e.fault # "none" THEN r.e
                 ELSE delete_selection(r.e)
       IN  /\ SetEd(run_loop(e1))
           /\ clipboard' = IF IsSome(selection) THEN r.clipboard ELSE clipboard
    /\ edits' = IF IsSome(selection) THEN edits + 1 ELSE edits
    /\ last' = Did("cut")
    /\ UNCHANGED <<prompt, rowVars, selVars, lockVars, filename, should_quit,
                   quit_times, quit_presses, sys_clipboard>>

CutNext ==
    \/ \E code \in ArrowCodes, shift \in BOOLEAN : ArrowKey(code, shift)
    \/ \E set_ok \in BOOLEAN : CtrlX(set_ok)
    \/ \E set_ok \in BOOLEAN : CtrlC(set_ok)

SpecCut == ClipInit /\ [][CutNext]_vars

\* A cut of a selection that is not empty, when there is no clipboard
\* provider or set_contents fails
CutFails ==
    /\ IsSome(selection)
    /\ ~is_empty(Unwrap(selection))
    /\ CtrlX(FALSE) \/ (~IsSome(sys_clipboard) /\ CtrlX(TRUE))

\* C40: Ctrl-X removes the selected text only if it was stored in the
\* clipboard: when the clipboard is absent or set_contents fails the rows
\* of the document stay as they were.
C40_CutKeepsTextOnFailure ==
    [][CutFails => TextOf(rows') = TextOf(rows)]_vars

=============================================================================
